---- MODULE Spec2Model ----
(***************************************************************************)
(* Image hosting server (src/server.js): the images table, the             *)
(* static_links table and the request handlers that read and write them.   *)
(* Every pool.query is one atomic step; a handler that awaits several       *)
(* queries takes several steps, and other handlers run in between.         *)
(***************************************************************************)
EXTENDS Integers, FiniteSets, Sequences, TLC

(* ------------------------------ bounds -------------------------------- *)

\* number of requests the server receives in one behaviour
MaxOps == 3

\* number of commands the user gives the editor page in one behaviour
MaxCmds == 4

\* number of pixels of the image a GIF is made of
MaxPixels == 2

\* number of layers of a scene that is rendered for export
MaxLayers == 2

(* --------------------------- value universes --------------------------- *)

\* SQL NULL / JavaScript null and undefined
NULL == "<null>"

\* a field that holds nothing yet
NONE == "-"

\* byte payloads (opaque)
Datas == {"d1", "d2"}

\* content types
Mimes == {"image/png", "image/gif"}

\* the route names GET /:filename hands on without a lookup
Reserved ==
  {"upload", "edit", "delete", "favicon.ico", "gif", "create-gif", "editor",
   "save-editor", "links", "create-link", "update-link", "delete-link"}

\* filenames that requests store images under
FileNames == {"a.png", "a.gif", "promo", ""}

\* filenames an upload can produce: the file filter demands an image extension
UploadNames == {"a.png"}

\* filenames create-transparent can produce: a stripped name plus ".png"
TransparentNames == {"a.png"}

\* path parameters of GET /:filename, /edit/:filename, /delete/:filename
\* (a path segment is never empty)
PathNames == FileNames \ {""}

\* path parameters of DELETE /delete/:filename: also a name that differs
\* from a stored one in case only
DeletePaths == PathNames \cup {"A.PNG"}

\* slugs as typed into the create-link form
RawSlugs == {"promo", "Promo", "gif"}

\* image filenames named by create-link and update-link requests
LinkTargets == {NULL, "", "a.png", "gif"}

\* filenames named by save-editor requests (undefined when the field is missing)
EditorNames == {NULL, "", "promo"}

\* slugs named by update-link, delete-link and save-editor requests
Slugs == {"promo", "gif"}

\* paths of GET /links/<slug>, which the README gives as a link's address
LinkPaths == {"links/promo"}

\* JavaScript truthiness of a string-or-null value
Truthy(v) == v # NULL /\ v # ""

\* v || dflt
OrElse(v, dflt) == IF Truthy(v) THEN v ELSE dflt

\* path.extname on the filenames of the model
ExtName(f) ==
  CASE f = "a.png" -> ".png"
    [] f = "a.gif" -> ".gif"
    [] OTHER -> ""

\* path.basename(f, path.extname(f)) on the filenames of the model
BaseName(f) ==
  CASE f \in {"a.png", "a.gif"} -> "a"
    [] OTHER -> f

\* slug.toLowerCase().replace(/[^a-z0-9_-]/g, '') on the slugs of the model
NormalizeSlug(raw) ==
  CASE raw = "Promo" -> "promo"
    [] OTHER -> raw

(* ------------------------------- state --------------------------------- *)

VARIABLES
  images,        \* rows of table images: [filename, mimetype, data]
  static_links,  \* rows of table static_links: [slug, image_filename]
  dbUp,          \* whether pool.query currently succeeds
  get,           \* the GET /:filename request, in flight or answered
  wr,            \* the request of any other handler, in flight or answered
  ops            \* requests received so far

\* two concurrent requests that store an image (POST /upload, POST /create-gif)
VARIABLES
  put            \* per writer: the request, before or after its upsert

\* the state of the server's tables and requests
serverVars == <<images, static_links, dbUp, get, wr, ops>>

\* the editor page served by GET /editor (the script of the page)
VARIABLES
  canvas,        \* the canvas element: [width, height]
  layers,        \* the layer sequence, bottom first
  selectedIndex, \* index into layers (from 0), or -1
  layerList,     \* number of layer items the page shows in #layerList
  loading,       \* images whose load was started by addLayer and has not ended
  isDragging,    \* a drag of the selected layer is under way
  dragStart,     \* <<dragStartX, dragStartY>>
  cmds           \* editor commands and load events so far

editorVars ==
  <<canvas, layers, selectedIndex, layerList, loading, isDragging, dragStart, cmds>>

\* the GIF exporter of POST /create-gif and POST /save-editor
VARIABLES
  gif,             \* the request: [handler, pc, asked, duration, width, height, i]
  rawBuffer,       \* the RGBA bytes sharp returns
  processedBuffer, \* the copy the loop over the pixels rewrites
  encoder,         \* the GIFEncoder
  ctx              \* the RGBA bytes of the node canvas

gifVars == <<gif, rawBuffer, processedBuffer, encoder, ctx>>

\* the export render of the editor page, getScaledCanvas()
VARIABLES
  useBgColor,    \* the background checkbox, as toggleBg() last read it
  bgColor,       \* the background colour, one channel
  render,        \* the call: [pc, scale, width, height, i]
  sctx,          \* the pixels of scaledCanvas, one row, each <<value, alpha>>
  drawn          \* the indexes of the layers drawImage was called for

composeVars == <<useBgColor, bgColor, render, sctx, drawn>>

\* the state outside the server's single-request handlers
notServer == <<put, editorVars, gifVars, composeVars>>

\* the state outside the concurrent puts, but for images and ops
notPuts == <<static_links, dbUp, get, wr, editorVars, gifVars, composeVars>>

\* the state outside the editor page
notEditor == <<serverVars, put, gifVars, composeVars>>

\* the state outside the GIF exporter
notGif == <<serverVars, put, editorVars, composeVars>>

\* the state the export render neither reads nor writes
notCompose ==
  <<serverVars, put, gifVars, selectedIndex, layerList, loading, isDragging,
    dragStart, cmds>>

vars == <<serverVars, notServer>>

ImageRow(f, m, d) == [filename |-> f, mimetype |-> m, data |-> d]

LinkRow(s, t) == [slug |-> s, image_filename |-> t]

\* SELECT ... FROM images WHERE filename = f
SelectImage(tbl, f) == {r \in tbl : r.filename = f}

\* SELECT image_filename FROM static_links WHERE slug = s
SelectLink(tbl, s) == {r \in tbl : r.slug = s}

\* Upsert whose DO UPDATE sets data only
UpsertDataOnly(tbl, f, m, d) ==
  IF \E r \in tbl : r.filename = f
    THEN {IF r.filename = f THEN [r EXCEPT !.data = d] ELSE r : r \in tbl}
    ELSE tbl \cup {[filename |-> f, mimetype |-> m, data |-> d]}

\* Upsert without the ON CONFLICT clause and without the UNIQUE constraint
UpsertAppends(tbl, f, m, d) ==
  tbl \cup {[filename |-> f, mimetype |-> m, data |-> d]}

\* Upsert that keeps the stored row: ON CONFLICT (filename) DO NOTHING
UpsertKeepsFirst(tbl, f, m, d) ==
  IF \E r \in tbl : r.filename = f THEN tbl
  ELSE tbl \cup {[filename |-> f, mimetype |-> m, data |-> d]}

\* INSERT INTO images ... ON CONFLICT (filename) DO UPDATE SET mimetype, data
Upsert(tbl, f, m, d) == {r \in tbl : r.filename # f} \cup {ImageRow(f, m, d)}

\* DELETE FROM images WHERE filename = f
DeleteFrom(tbl, f) == {r \in tbl : r.filename # f}

IdleGet ==
  [pc |-> "idle", filename |-> NONE, target |-> NONE, quiet |-> TRUE,
   outcome |-> NONE, ctype |-> NONE, body |-> NONE, cache |-> NONE]

IdleWr ==
  [op |-> NONE, pc |-> "idle", src |-> NONE, filename |-> NONE,
   mimetype |-> NONE, data |-> NONE, slug |-> NONE, wrote |-> FALSE,
   replaced |-> FALSE, status |-> NONE]

\* The tables outlive the server process: it starts on what an earlier run
\* left in the store, here nothing or one uploaded image.
StoreInit ==
  /\ images \in {{}, {ImageRow("a.png", "image/png", "d1")}}
  /\ static_links = {}
  /\ dbUp = TRUE
  /\ get = IdleGet
  /\ wr = IdleWr
  /\ ops = 0

\* the writers of concurrent puts
Writers == {1, 2}

IdlePut ==
  [op |-> NONE, pc |-> "idle", filename |-> NONE, mimetype |-> NONE,
   data |-> NONE, at |-> 0]

\* no request of the concurrent writers has arrived
PutsIdle == put = [i \in Writers |-> IdlePut]

\* the editor page as loaded: the script's initial values
EditorInit ==
  /\ canvas = [width |-> 1080, height |-> 1920]
  /\ layers = <<>>
  /\ selectedIndex = -1
  /\ layerList = 0
  /\ loading = <<>>
  /\ isDragging = FALSE
  /\ dragStart = <<0, 0>>
  /\ cmds = 0

\* the encoder before new GIFEncoder: nothing set, no frame
NoEncoder ==
  [repeat |-> 0, delay |-> <<>>, quality |-> 0, transparent |-> NONE,
   started |-> FALSE, finished |-> FALSE, frames |-> <<>>]

\* no export is under way
GifIdle ==
  /\ gif = [handler |-> NONE, pc |-> "idle", asked |-> <<>>, duration |-> <<>>,
            width |-> 0, height |-> 0, i |-> 0]
  /\ rawBuffer = <<>>
  /\ processedBuffer = <<>>
  /\ encoder = NoEncoder
  /\ ctx = <<>>

\* no render asked for; the background as the page's script declares it
NoRender == [pc |-> "idle", scale |-> 0, width |-> 0, height |-> 0, i |-> 0]

ComposeIdle ==
  /\ useBgColor = FALSE
  /\ bgColor = 0
  /\ render = NoRender
  /\ sctx = <<>>
  /\ drawn = <<>>

Init ==
  /\ StoreInit
  /\ PutsIdle
  /\ EditorInit
  /\ GifIdle
  /\ ComposeIdle

\* a table changes in this step
Disturbed == images' # images \/ static_links' # static_links

\* An answered request is kept for one step, as the response just sent.
\* While another handler takes a step, an answered GET is forgotten and a
\* GET in flight notes whether a table changed under it.
GetSees ==
  get' = IF get.pc = "done" THEN IdleGet
         ELSE IF get.pc # "idle" /\ Disturbed THEN [get EXCEPT !.quiet = FALSE]
         ELSE get

\* while GET takes a step, an answered request of another handler is forgotten
WrSettles == wr' = IF wr.pc = "done" THEN IdleWr ELSE wr

(* ------------------------- GET /:filename ------------------------------ *)

NoCache == "no-cache, no-store, must-revalidate"

LongCache == "public, max-age=31536000"

\* res.set('Content-Type'), res.set('Cache-Control'), res.send(image.data)
GetServe(g, how, row, cc) ==
  [g EXCEPT !.pc = "done", !.target = NONE, !.outcome = how,
            !.ctype = row.mimetype, !.body = row.data, !.cache = cc]

\* next(), next(err): no image is sent
GetPass(g, how) == [g EXCEPT !.pc = "done", !.target = NONE, !.outcome = how]

\* GetLink with the alias stage left out
GetLinkSkipsAlias(f) ==
  /\ get.pc \in {"idle", "done"}
  /\ ops < MaxOps
  /\ ops' = ops + 1
  /\ get' = IF f \in Reserved THEN GetPass([IdleGet EXCEPT !.filename = f], "reserved")
            ELSE [IdleGet EXCEPT !.filename = f, !.pc = "image"]
  /\ WrSettles
  /\ UNCHANGED <<images, static_links, dbUp>>
  /\ UNCHANGED notServer

\* GetLink with the reserved-route check left out
GetLinkNoReserved(f) ==
  /\ get.pc \in {"idle", "done"}
  /\ ops < MaxOps
  /\ ops' = ops + 1
  /\ LET g == [IdleGet EXCEPT !.filename = f]
         linkResult == SelectLink(static_links, f)
     IN  get' =
           IF \E r \in linkResult : Truthy(r.image_filename)
             THEN [g EXCEPT !.pc = "linkimg",
                     !.target = (CHOOSE r \in linkResult : TRUE).image_filename]
           ELSE [g EXCEPT !.pc = "image"]
  /\ WrSettles
  /\ UNCHANGED <<images, static_links, dbUp>>
  /\ UNCHANGED notServer

\* the route check and the static_links query
GetLink(f) ==
  /\ get.pc \in {"idle", "done"}
  /\ ops < MaxOps
  /\ ops' = ops + 1
  /\ LET g == [IdleGet EXCEPT !.filename = f]
         linkResult == SelectLink(static_links, f)
     IN  get' =
           IF f \in Reserved THEN GetPass(g, "reserved")
           ELSE IF ~dbUp THEN [g EXCEPT !.pc = "image"]
           ELSE IF \E r \in linkResult : Truthy(r.image_filename)
             THEN [g EXCEPT !.pc = "linkimg",
                     !.target = (CHOOSE r \in linkResult : TRUE).image_filename]
           ELSE [g EXCEPT !.pc = "image"]
  /\ WrSettles
  /\ UNCHANGED <<images, static_links, dbUp>>
  /\ UNCHANGED notServer

\* GetLinkImage that looks a missing target up among the aliases
GetLinkImageFollows ==
  /\ get.pc = "linkimg"
  /\ LET imageResult == SelectImage(images, get.target)
         next == {l.image_filename : l \in SelectLink(static_links, get.target)}
         nextResult == UNION {SelectImage(images, t) : t \in next}
     IN  get' =
           IF ~dbUp THEN [get EXCEPT !.pc = "image"]
           ELSE IF imageResult # {}
             THEN GetServe(get, "alias", CHOOSE r \in imageResult : TRUE, NoCache)
           ELSE IF nextResult # {}
             THEN GetServe(get, "alias", CHOOSE r \in nextResult : TRUE, NoCache)
           ELSE [get EXCEPT !.pc = "image"]
  /\ WrSettles
  /\ UNCHANGED <<images, static_links, dbUp, ops>>
  /\ UNCHANGED notServer

\* GetLinkImage answering not-found when the target is missing
GetLinkImageHardFail ==
  /\ get.pc = "linkimg"
  /\ LET imageResult == SelectImage(images, get.target)
     IN  get' =
           IF imageResult # {}
             THEN GetServe(get, "alias", CHOOSE r \in imageResult : TRUE, NoCache)
           ELSE GetPass(get, "notfound")
  /\ WrSettles
  /\ UNCHANGED <<images, static_links, dbUp, ops>>
  /\ UNCHANGED notServer

\* GetLinkImage with the long-lived cache directive
GetLinkImageCached ==
  /\ get.pc = "linkimg"
  /\ LET imageResult == SelectImage(images, get.target)
     IN  get' =
           IF imageResult # {}
             THEN GetServe(get, "alias", CHOOSE r \in imageResult : TRUE, LongCache)
           ELSE [get EXCEPT !.pc = "image"]
  /\ WrSettles
  /\ UNCHANGED <<images, static_links, dbUp, ops>>
  /\ UNCHANGED notServer

\* GetLinkImage that reads the first row without testing that there is one
GetLinkImageThrows ==
  /\ get.pc = "linkimg"
  /\ LET imageResult == SelectImage(images, get.target)
     IN  get' =
           IF imageResult # {}
             THEN GetServe(get, "alias", CHOOSE r \in imageResult : TRUE, NoCache)
           ELSE GetPass(get, "error")
  /\ WrSettles
  /\ UNCHANGED <<images, static_links, dbUp, ops>>
  /\ UNCHANGED notServer

\* the images query for the link's target
GetLinkImage ==
  /\ get.pc = "linkimg"
  /\ LET imageResult == SelectImage(images, get.target)
     IN  get' =
           IF ~dbUp THEN [get EXCEPT !.pc = "image"]
           ELSE IF imageResult # {}
             THEN GetServe(get, "alias", CHOOSE r \in imageResult : TRUE, NoCache)
           ELSE [get EXCEPT !.pc = "image"]
  /\ WrSettles
  /\ UNCHANGED <<images, static_links, dbUp, ops>>
  /\ UNCHANGED notServer

\* GetImage answering not-found whatever the query returns
GetImageNeverFinds ==
  /\ get.pc = "image"
  /\ get' = GetPass(get, "notfound")
  /\ WrSettles
  /\ UNCHANGED <<images, static_links, dbUp, ops>>
  /\ UNCHANGED notServer

\* the images query for the requested name
GetImage ==
  /\ get.pc = "image"
  /\ LET result == SelectImage(images, get.filename)
     IN  get' =
           IF ~dbUp THEN GetPass(get, "error")
           ELSE IF result = {} THEN GetPass(get, "notfound")
           ELSE GetServe(get, "direct", CHOOSE r \in result : TRUE, LongCache)
  /\ WrSettles
  /\ UNCHANGED <<images, static_links, dbUp, ops>>
  /\ UNCHANGED notServer

\* GET of a path with two segments: app.get('/:filename') and
\* app.get('/links') do not match it, no other route does, and Express
\* answers 404 without a query
GetUnrouted(path) ==
  /\ get.pc \in {"idle", "done"}
  /\ ops < MaxOps
  /\ ops' = ops + 1
  /\ get' = GetPass([IdleGet EXCEPT !.filename = path], "notfound")
  /\ WrSettles
  /\ UNCHANGED <<images, static_links, dbUp>>
  /\ UNCHANGED notServer

(* ---------------------- single-query handlers -------------------------- *)

\* the answers that report a failure to the caller
Failures == {"400", "404", "500", "success:false"}

\* the handler answers: res.send, res.redirect, res.status(..).send or res.json;
\* its locals are gone, and a failed request is remembered by its answer only
WrDone(w, status) ==
  IF status \in Failures
    THEN [IdleWr EXCEPT !.op = w.op, !.pc = "done", !.wrote = w.wrote,
            !.replaced = w.replaced, !.status = status]
    ELSE [w EXCEPT !.pc = "done", !.src = NONE, !.status = status]

\* the request notes what its write to the name f did to table images:
\* whether it changed the table and whether it found a row under f
Wrote(w, f) ==
  [w EXCEPT !.wrote = (images' # images),
            !.replaced = (SelectImage(images, f) # {})]

\* POST /upload
Upload(hasFile, f, m, d, codecOk) ==
  /\ wr.pc \in {"idle", "done"}
  /\ ops < MaxOps
  /\ ops' = ops + 1
  /\ LET w == [IdleWr EXCEPT !.op = "upload", !.filename = f, !.mimetype = m,
                 !.data = d]
     IN  IF ~hasFile THEN
           /\ images' = images
           /\ wr' = WrDone([IdleWr EXCEPT !.op = "upload"], "400")
         ELSE IF ~codecOk \/ ~dbUp THEN
           /\ images' = images
           /\ wr' = WrDone(w, "500")
         ELSE
           /\ images' = Upsert(images, f, m, d)
           /\ wr' = WrDone(Wrote(w, f), "200")
  /\ static_links' = static_links
  /\ GetSees
  /\ UNCHANGED dbUp
  /\ UNCHANGED notServer

\* POST /create-transparent
CreateTransparent(f, transparentPng) ==
  /\ wr.pc \in {"idle", "done"}
  /\ ops < MaxOps
  /\ ops' = ops + 1
  /\ LET w == [IdleWr EXCEPT !.op = "create-transparent", !.filename = f,
                 !.mimetype = "image/png", !.data = transparentPng]
     IN  IF ~dbUp THEN
           /\ images' = images
           /\ wr' = WrDone(w, "500")
         ELSE
           /\ images' = Upsert(images, f, "image/png", transparentPng)
           /\ wr' = WrDone(Wrote(w, f), "200")
  /\ static_links' = static_links
  /\ GetSees
  /\ UNCHANGED dbUp
  /\ UNCHANGED notServer

\* DeleteImage that also nulls the aliases pointing at the name
DeleteImageCascades(f) ==
  /\ wr.pc \in {"idle", "done"}
  /\ ops < MaxOps
  /\ ops' = ops + 1
  /\ images' = DeleteFrom(images, f)
  /\ static_links' =
       {IF l.image_filename = f THEN [l EXCEPT !.image_filename = NULL] ELSE l :
          l \in static_links}
  /\ wr' = WrDone([IdleWr EXCEPT !.op = "delete", !.filename = f,
                    !.wrote = (images' # images)],
                  IF SelectImage(images, f) # {} THEN "200" ELSE "404")
  /\ GetSees
  /\ UNCHANGED dbUp
  /\ UNCHANGED notServer

\* DeleteImage that answers success whether or not a row was deleted
DeleteImageAlwaysOk(f) ==
  /\ wr.pc \in {"idle", "done"}
  /\ ops < MaxOps
  /\ ops' = ops + 1
  /\ images' = DeleteFrom(images, f)
  /\ wr' = WrDone([IdleWr EXCEPT !.op = "delete", !.filename = f,
                    !.wrote = (images' # images)], "200")
  /\ static_links' = static_links
  /\ GetSees
  /\ UNCHANGED dbUp
  /\ UNCHANGED notServer

\* DELETE /delete/:filename
DeleteImage(f) ==
  /\ wr.pc \in {"idle", "done"}
  /\ ops < MaxOps
  /\ ops' = ops + 1
  /\ LET w == [IdleWr EXCEPT !.op = "delete", !.filename = f]
     IN  IF ~dbUp THEN
           /\ images' = images
           /\ wr' = WrDone(w, "500")
         ELSE
           /\ images' = DeleteFrom(images, f)
           /\ wr' = WrDone([w EXCEPT !.wrote = (images' # images)],
                           IF SelectImage(images, f) # {} THEN "200" ELSE "404")
  /\ static_links' = static_links
  /\ GetSees
  /\ UNCHANGED dbUp
  /\ UNCHANGED notServer

\* CreateLink on a table whose slug column is not UNIQUE
CreateLinkNoUnique(raw, target) ==
  /\ wr.pc \in {"idle", "done"}
  /\ ops < MaxOps
  /\ ops' = ops + 1
  /\ LET slug == NormalizeSlug(raw)
         imageFilename == OrElse(target, NULL)
         w == [IdleWr EXCEPT !.op = "create-link", !.slug = slug,
                 !.filename = imageFilename]
     IN  IF ~dbUp THEN
           /\ static_links' = static_links
           /\ wr' = WrDone(w, "500")
         ELSE
           /\ static_links' = static_links \cup {LinkRow(slug, imageFilename)}
           /\ wr' = WrDone([w EXCEPT !.wrote = TRUE], "302")
  /\ images' = images
  /\ GetSees
  /\ UNCHANGED dbUp
  /\ UNCHANGED notServer

\* POST /create-link (slug is UNIQUE)
CreateLink(raw, target) ==
  /\ wr.pc \in {"idle", "done"}
  /\ ops < MaxOps
  /\ ops' = ops + 1
  /\ LET slug == NormalizeSlug(raw)
         imageFilename == OrElse(target, NULL)
         w == [IdleWr EXCEPT !.op = "create-link", !.slug = slug,
                 !.filename = imageFilename]
     IN  IF ~dbUp \/ SelectLink(static_links, slug) # {} THEN
           /\ static_links' = static_links
           /\ wr' = WrDone(w, "500")
         ELSE
           /\ static_links' = static_links \cup {LinkRow(slug, imageFilename)}
           /\ wr' = WrDone([w EXCEPT !.wrote = TRUE], "302")
  /\ images' = images
  /\ GetSees
  /\ UNCHANGED dbUp
  /\ UNCHANGED notServer

\* UPDATE static_links SET image_filename = t WHERE slug = s
SetLink(tbl, s, t) ==
  {IF r.slug = s THEN LinkRow(s, t) ELSE r : r \in tbl}

\* POST /update-link
UpdateLink(slug, filename) ==
  /\ wr.pc \in {"idle", "done"}
  /\ ops < MaxOps
  /\ ops' = ops + 1
  /\ LET w == [IdleWr EXCEPT !.op = "update-link", !.slug = slug,
                 !.filename = OrElse(filename, NULL)]
     IN  IF ~dbUp THEN
           /\ static_links' = static_links
           /\ wr' = WrDone(w, "success:false")
         ELSE
           /\ static_links' = SetLink(static_links, slug, OrElse(filename, NULL))
           /\ wr' = WrDone([w EXCEPT !.wrote = (static_links' # static_links)],
                           "success:true")
  /\ images' = images
  /\ GetSees
  /\ UNCHANGED dbUp
  /\ UNCHANGED notServer

\* POST /delete-link
DeleteLink(slug) ==
  /\ wr.pc \in {"idle", "done"}
  /\ ops < MaxOps
  /\ ops' = ops + 1
  /\ LET w == [IdleWr EXCEPT !.op = "delete-link", !.slug = slug]
     IN  IF ~dbUp THEN
           /\ static_links' = static_links
           /\ wr' = WrDone(w, "success:false")
         ELSE
           /\ static_links' = {r \in static_links : r.slug # slug}
           /\ wr' = WrDone([w EXCEPT !.wrote = (static_links' # static_links)],
                           "success:true")
  /\ images' = images
  /\ GetSees
  /\ UNCHANGED dbUp
  /\ UNCHANGED notServer

(* ----------------------- multi-query handlers -------------------------- *)

\* 'image/' + (format === 'jpg' ? 'jpeg' : format)
FormatMime(format) == "image/" \o (IF format = "jpg" THEN "jpeg" ELSE format)

\* the new filename of an edit: newName + ext
EditFilename(old, newName, format) ==
  OrElse(newName, BaseName(old))
    \o (IF Truthy(format) THEN "." \o format ELSE ExtName(old))

\* POST /edit/:filename: the SELECT of the old image, then sharp
EditSelect(old, newName, format, newBuffer, codecOk) ==
  /\ wr.pc \in {"idle", "done"}
  /\ ops < MaxOps
  /\ ops' = ops + 1
  /\ EditFilename(old, newName, format) \in FileNames
  /\ LET result == SelectImage(images, old)
         w == [IdleWr EXCEPT !.op = "edit", !.src = old]
     IN  wr' =
           IF ~dbUp THEN WrDone(w, "500")
           ELSE IF result = {} THEN WrDone(w, "404")
           ELSE IF ~codecOk THEN WrDone(w, "500")
           ELSE [w EXCEPT !.pc = "write",
                   !.filename = EditFilename(old, newName, format),
                   !.mimetype =
                     IF Truthy(format) THEN FormatMime(format)
                     ELSE (CHOOSE r \in result : TRUE).mimetype,
                   !.data = newBuffer]
  /\ UNCHANGED <<images, static_links, dbUp>>
  /\ GetSees
  /\ UNCHANGED notServer

\* UPDATE images SET data, mimetype WHERE filename = f
UpdateImage(tbl, f, m, d) ==
  {IF r.filename = f THEN ImageRow(f, m, d) ELSE r : r \in tbl}

\* POST /edit/:filename: the UPDATE in place, or the DELETE of the old name
EditWrite ==
  /\ wr.op = "edit"
  /\ wr.pc = "write"
  /\ IF ~dbUp THEN
       /\ images' = images
       /\ wr' = WrDone(wr, "500")
     ELSE IF wr.src = wr.filename THEN
       /\ images' = UpdateImage(images, wr.src, wr.mimetype, wr.data)
       /\ wr' = WrDone(Wrote(wr, wr.src), "200")
     ELSE
       /\ images' = DeleteFrom(images, wr.src)
       /\ wr' = [wr EXCEPT !.pc = "insert", !.wrote = (images' # images)]
  /\ static_links' = static_links
  /\ GetSees
  /\ UNCHANGED <<dbUp, ops>>
  /\ UNCHANGED notServer

\* POST /edit/:filename: the INSERT of the new name (filename is UNIQUE)
EditInsert ==
  /\ wr.op = "edit"
  /\ wr.pc = "insert"
  /\ IF ~dbUp \/ SelectImage(images, wr.filename) # {} THEN
       /\ images' = images
       /\ wr' = WrDone(wr, "500")
     ELSE
       /\ images' = images \cup {ImageRow(wr.filename, wr.mimetype, wr.data)}
       /\ wr' = WrDone([wr EXCEPT !.wrote = TRUE], "200")
  /\ static_links' = static_links
  /\ GetSees
  /\ UNCHANGED <<dbUp, ops>>
  /\ UNCHANGED notServer

\* CreateGifSource that takes the uploaded file when there is one
CreateGifSourcePrefersFile(existingImage, hasFile, outputName, gifBuffer, codecOk) ==
  /\ wr.pc \in {"idle", "done"}
  /\ ops < MaxOps
  /\ ops' = ops + 1
  /\ LET w == [IdleWr EXCEPT !.op = "create-gif",
                 !.src = IF hasFile THEN NULL ELSE existingImage]
         ready == [w EXCEPT !.pc = "write",
                     !.filename = OrElse(outputName, "animation") \o ".gif",
                     !.mimetype = "image/gif",
                     !.data = gifBuffer]
     IN  wr' =
           IF hasFile THEN
             IF ~codecOk THEN WrDone(w, "500") ELSE ready
           ELSE IF Truthy(existingImage) THEN
             IF ~dbUp THEN WrDone(w, "500")
             ELSE IF SelectImage(images, existingImage) = {} THEN WrDone(w, "404")
             ELSE IF ~codecOk THEN WrDone(w, "500")
             ELSE ready
           ELSE WrDone(w, "400")
  /\ UNCHANGED <<images, static_links, dbUp>>
  /\ GetSees
  /\ UNCHANGED notServer

\* POST /create-gif: the source image, from the store or from the upload
CreateGifSource(existingImage, hasFile, outputName, gifBuffer, codecOk) ==
  /\ wr.pc \in {"idle", "done"}
  /\ ops < MaxOps
  /\ ops' = ops + 1
  /\ LET w == [IdleWr EXCEPT !.op = "create-gif", !.src = existingImage]
         ready == [w EXCEPT !.pc = "write",
                     !.filename = OrElse(outputName, "animation") \o ".gif",
                     !.mimetype = "image/gif",
                     !.data = gifBuffer]
     IN  wr' =
           IF Truthy(existingImage) THEN
             IF ~dbUp THEN WrDone(w, "500")
             ELSE IF SelectImage(images, existingImage) = {} THEN WrDone(w, "404")
             ELSE IF ~codecOk THEN WrDone(w, "500")
             ELSE ready
           ELSE IF hasFile THEN
             IF ~codecOk THEN WrDone(w, "500") ELSE ready
           ELSE WrDone(w, "400")
  /\ UNCHANGED <<images, static_links, dbUp>>
  /\ GetSees
  /\ UNCHANGED notServer

\* POST /create-gif: the upsert of the encoded GIF
CreateGifSave ==
  /\ wr.op = "create-gif"
  /\ wr.pc = "write"
  /\ IF ~dbUp THEN
       /\ images' = images
       /\ wr' = WrDone(wr, "500")
     ELSE
       /\ images' = Upsert(images, wr.filename, wr.mimetype, wr.data)
       /\ wr' = WrDone(Wrote(wr, wr.filename), "200")
  /\ static_links' = static_links
  /\ GetSees
  /\ UNCHANGED <<dbUp, ops>>
  /\ UNCHANGED notServer

\* POST /save-editor: decode (and encode the GIF), then the upsert
SaveEditorSave(hasData, filename, mimetype, createGif, buffer, codecOk, updateStaticLink) ==
  /\ wr.pc \in {"idle", "done"}
  /\ ops < MaxOps
  /\ ops' = ops + 1
  /\ LET finalMimetype == IF createGif THEN "image/gif" ELSE mimetype
         w == [IdleWr EXCEPT !.op = "save-editor", !.filename = filename,
                 !.mimetype = finalMimetype, !.data = buffer,
                 !.slug = updateStaticLink]
     IN  IF \/ ~hasData
            \/ createGif /\ ~codecOk
            \/ ~dbUp
            \/ filename = NULL
            \/ finalMimetype = NULL
         THEN
           /\ images' = images
           /\ wr' = WrDone(w, "success:false")
         ELSE
           /\ images' = Upsert(images, filename, finalMimetype, buffer)
           /\ wr' = IF Truthy(updateStaticLink)
                      THEN [Wrote(w, filename) EXCEPT !.pc = "setlink"]
                      ELSE WrDone(Wrote(w, filename), "success:true")
  /\ static_links' = static_links
  /\ GetSees
  /\ UNCHANGED dbUp
  /\ UNCHANGED notServer

\* POST /save-editor: the UPDATE of the static link
SaveEditorLink ==
  /\ wr.op = "save-editor"
  /\ wr.pc = "setlink"
  /\ IF ~dbUp THEN
       /\ static_links' = static_links
       /\ wr' = WrDone(wr, "success:false")
     ELSE
       /\ static_links' = SetLink(static_links, wr.slug, wr.filename)
       /\ wr' = WrDone([wr EXCEPT !.wrote = (wr.wrote \/ static_links' # static_links)],
                       "success:true")
  /\ images' = images
  /\ GetSees
  /\ UNCHANGED <<dbUp, ops>>
  /\ UNCHANGED notServer

\* the inputs of the edit form
EditNames == {NULL, "a"}

EditFormats == {NULL, "gif"}

(* ------------------------------ requests ------------------------------- *)
\* One request of each kind that fails before it reaches the store, and the
\* well-formed requests over the value universes.

UploadRequests ==
  {[hasFile |-> FALSE, f |-> "a.png", m |-> "image/png", d |-> "d1", codecOk |-> TRUE],
   [hasFile |-> TRUE, f |-> "a.png", m |-> "image/png", d |-> "d1", codecOk |-> FALSE]}
  \cup {[hasFile |-> TRUE, f |-> f, m |-> "image/png", d |-> d, codecOk |-> TRUE] :
          f \in UploadNames, d \in Datas}

EditRequests ==
  {[old |-> old, newName |-> n, format |-> fmt, newBuffer |-> d, codecOk |-> ok] :
     old \in PathNames, n \in EditNames, fmt \in EditFormats, d \in Datas,
     ok \in BOOLEAN}

CreateGifRequests ==
  {[existingImage |-> NULL, hasFile |-> FALSE, outputName |-> "a",
    gifBuffer |-> "d1", codecOk |-> TRUE]}
  \cup {[existingImage |-> e, hasFile |-> h, outputName |-> "a",
         gifBuffer |-> d, codecOk |-> ok] :
          e \in PathNames \cup {NULL}, h \in BOOLEAN, d \in Datas,
          ok \in BOOLEAN}

SaveEditorRequests ==
  {[hasData |-> FALSE, filename |-> "promo", mimetype |-> "image/png",
    createGif |-> FALSE, buffer |-> "d1", codecOk |-> TRUE,
    updateStaticLink |-> NULL],
   [hasData |-> TRUE, filename |-> "promo", mimetype |-> "image/png",
    createGif |-> TRUE, buffer |-> "d1", codecOk |-> FALSE,
    updateStaticLink |-> NULL],
   [hasData |-> TRUE, filename |-> "promo", mimetype |-> NULL,
    createGif |-> FALSE, buffer |-> "d1", codecOk |-> TRUE,
    updateStaticLink |-> NULL]}
  \cup {[hasData |-> TRUE, filename |-> f, mimetype |-> "image/png",
         createGif |-> g, buffer |-> d, codecOk |-> TRUE,
         updateStaticLink |-> s] :
          f \in EditorNames, g \in BOOLEAN, d \in Datas, s \in Slugs \cup {NULL}}

Next ==
  \/ \E f \in PathNames \cup Reserved : GetLink(f)
  \/ GetLinkImage
  \/ GetImage
  \/ \E r \in UploadRequests : Upload(r.hasFile, r.f, r.m, r.d, r.codecOk)
  \/ \E f \in TransparentNames, d \in Datas : CreateTransparent(f, d)
  \/ \E f \in DeletePaths : DeleteImage(f)
  \/ \E raw \in RawSlugs, t \in LinkTargets : CreateLink(raw, t)
  \/ \E s \in Slugs, t \in LinkTargets : UpdateLink(s, t)
  \/ \E s \in Slugs : DeleteLink(s)
  \/ \E r \in EditRequests :
       EditSelect(r.old, r.newName, r.format, r.newBuffer, r.codecOk)
  \/ EditWrite
  \/ EditInsert
  \/ \E r \in CreateGifRequests :
       CreateGifSource(r.existingImage, r.hasFile, r.outputName, r.gifBuffer,
                       r.codecOk)
  \/ CreateGifSave
  \/ \E r \in SaveEditorRequests :
       SaveEditorSave(r.hasData, r.filename, r.mimetype, r.createGif, r.buffer,
                      r.codecOk, r.updateStaticLink)
  \/ SaveEditorLink

Spec == Init /\ [][Next]_vars

(* ----------------------- the documented link path --------------------- *)

NextLinks == Next \/ \E path \in LinkPaths : GetUnrouted(path)

\* the server with requests for GET /links/<slug> as well
SpecLinks == Init /\ [][NextLinks]_vars

(* ------------------------- the operation pages ------------------------ *)

\* the pages served at a path of one segment: app.get('/transparent'),
\* app.get('/gif'), app.get('/editor'), app.get('/links'), all registered
\* after app.get('/:filename')
OperationPages == {"transparent", "gif", "editor", "links"}

\* the server with requests that name a page: a GET of the page, an alias
\* created under its name, an editor image saved under its name
NextPages ==
  \/ Next
  \/ \E f \in OperationPages : GetLink(f)
  \/ \E f \in OperationPages, t \in LinkTargets : CreateLink(f, t)
  \/ \E f \in OperationPages, d \in Datas :
       SaveEditorSave(TRUE, f, "image/png", FALSE, d, TRUE, NULL)

SpecPages == Init /\ [][NextPages]_vars

(* ------------------------- store failures ------------------------------ *)

\* the connection to the store is lost: every pool.query rejects
DbFail ==
  /\ dbUp
  /\ dbUp' = FALSE
  /\ UNCHANGED <<images, static_links, get, wr, ops>>
  /\ UNCHANGED notServer

\* the connection is back
DbRecover ==
  /\ ~dbUp
  /\ dbUp' = TRUE
  /\ UNCHANGED <<images, static_links, get, wr, ops>>
  /\ UNCHANGED notServer

NextFault == Next \/ DbFail \/ DbRecover

\* the server with a store that fails and recovers at any moment
SpecFault == Init /\ [][NextFault]_vars

(* -------------------------- concurrent puts ---------------------------- *)

\* filenames and content types of the concurrent puts: an upload names its
\* file and declares its type, create-gif stores image/gif under a .gif name
PutNames == {"a.png", "a.gif"}

\* the save order of the next upsert
NextAt == 1 + (CHOOSE n \in {put[j].at : j \in Writers} :
                 \A j \in Writers : put[j].at <= n)

\* POST /upload of writer i, up to the await of sharp's toBuffer
PutUpload(i, f, m, d) ==
  /\ put[i].pc \in {"idle", "done"}
  /\ ops < MaxOps
  /\ ops' = ops + 1
  /\ put' = [put EXCEPT ![i] = [IdlePut EXCEPT !.op = "upload", !.pc = "save",
                                  !.filename = f, !.mimetype = m, !.data = d]]
  /\ images' = images
  /\ UNCHANGED notPuts

\* POST /create-gif of writer i, up to the encoded GIF
PutCreateGif(i, outputName, gifBuffer) ==
  /\ put[i].pc \in {"idle", "done"}
  /\ ops < MaxOps
  /\ ops' = ops + 1
  /\ put' = [put EXCEPT ![i] =
               [IdlePut EXCEPT !.op = "create-gif", !.pc = "save",
                  !.filename = OrElse(outputName, "animation") \o ".gif",
                  !.mimetype = "image/gif", !.data = gifBuffer]]
  /\ images' = images
  /\ UNCHANGED notPuts

\* the upsert of writer i and its response
PutSave(i) ==
  /\ put[i].pc = "save"
  /\ images' = Upsert(images, put[i].filename, put[i].mimetype, put[i].data)
  /\ put' = [put EXCEPT ![i].pc = "done", ![i].at = NextAt]
  /\ ops' = ops
  /\ UNCHANGED notPuts

NextPuts ==
  \/ \E i \in Writers, f \in PutNames, m \in Mimes, d \in Datas :
       PutUpload(i, f, m, d)
  \/ \E i \in Writers, d \in Datas : PutCreateGif(i, "a", d)
  \/ \E i \in Writers : PutSave(i)

\* two writers whose handlers interleave at every await
SpecPuts == Init /\ [][NextPuts]_vars

(* ----------------------------- editor page ----------------------------- *)
\* layer.scale is kept in thousandths (scale 1 is 1000); positions and sizes
\* are whole pixels, a half pixel is rounded down.

\* the smallest and the largest scale the wheel handler allows, in thousandths
MinScale == 50

MaxScale == 10000

\* the options of #imageSelect: no image chosen, or a stored image
ImageOptions == {"", "a.png", "a.gif"}

\* img.width, img.height of the stored images once loaded
ImgWidth(f) == IF f = "a.png" THEN 50 ELSE 1080

ImgHeight(f) == IF f = "a.png" THEN 50 ELSE 1920

\* the size preset buttons
SizePresets == {<<1080, 1920>>, <<2160, 3840>>, <<540, 960>>, <<1920, 1080>>}

\* positions of the mouse on the canvas, in canvas pixels
MousePoints == {<<0, 0>>, <<540, 960>>}

\* what parseInt makes of a typed value: <<n>>, or <<>> for NaN
\* values typed into #inputW
TypedWidths == {<<>>, <<-50>>, <<1>>, <<100>>, <<100000>>}

\* A number too wide for the model checker's integers is a pair <<hi, lo>>
\* that stands for hi * 2^28 + lo with lo in 0 .. 2^28 - 1.
Word == 268435456

\* the widths and heights a canvas element falls back to
DefaultWidth == 300

DefaultHeight == 150

\* an integer as a pair
Wide(n) == <<n \div Word, n % Word>>

\* the pair w times a scale of 1 to 4
TimesWide(w, s) == <<w[1] * s + (w[2] * s) \div Word, (w[2] * s) % Word>>

\* the assignment canvas.width = w (canvas.height = w): the number is taken
\* modulo 2^32 as an unsigned long; a result above 2^31 - 1 is replaced by
\* the element's default, any other is the new dimension, 0 included
ToCanvasDim(w, dflt) ==
  LET hi == w[1] % 16
  IN  IF hi < 8 THEN hi * Word + w[2] ELSE dflt

\* parseInt(value) || dflt on a typed number: <<>> is NaN
WideOr(v, dflt) == IF v = <<>> \/ v = Wide(0) THEN Wide(dflt) ELSE v

\* values typed into #canvasW and #canvasH: nothing and 0, -5 twice,
\* 2^32 and 600
TypedSizes ==
  {<<(<<>>), Wide(0)>>, <<Wide(-5), Wide(-5)>>, <<(<<16, 0>>), Wide(600)>>}

\* values typed into #inputX and #inputY
TypedPositions == {<<>>, <<100>>}

\* values of #scaleSlider (min 5, max 400)
SliderValues == {5, 100, 400}

Min(a, b) == IF a <= b THEN a ELSE b

Max(a, b) == IF a >= b THEN a ELSE b

\* parseInt(v) || dflt
IntOr(v, dflt) == IF v = <<>> \/ v = <<0>> THEN dflt ELSE v[1]

\* originalW * scale
Scaled(px, scale) == (px * scale) \div 1000

\* s.splice(i, 1), i counted from 0
Splice(s, i) ==
  IF i < 0 \/ i >= Len(s) THEN s
  ELSE [k \in 1..(Len(s) - 1) |-> IF k <= i THEN s[k] ELSE s[k + 1]]

\* getSelected(): the place of the selected layer in layers, 0 for null
Selected ==
  IF selectedIndex >= 0 /\ selectedIndex < Len(layers) THEN selectedIndex + 1 ELSE 0

\* getLayerAt(x, y): the topmost layer under the point, -1 for none
LayerAt(x, y) ==
  LET hit == {i \in 1..Len(layers) :
                /\ x >= layers[i].x
                /\ x <= layers[i].x + Scaled(layers[i].originalW, layers[i].scale)
                /\ y >= layers[i].y
                /\ y <= layers[i].y + Scaled(layers[i].originalH, layers[i].scale)}
  IN  IF hit = {} THEN -1
      ELSE (CHOOSE i \in hit : \A j \in hit : j <= i) - 1

\* one more command of the user
Command == cmds < MaxCmds /\ cmds' = cmds + 1

\* updateLayerList(): the list shows one item per layer
ListShown == layerList' = Len(layers')

\* addLayer(): start loading the chosen image. img is a new Image object,
\* told from the others by the number of the command that created it
AddLayer(filename) ==
  /\ Command
  /\ loading' = IF Truthy(filename)
                  THEN Append(loading, [src |-> filename, id |-> cmds'])
                  ELSE loading
  /\ UNCHANGED <<canvas, layers, selectedIndex, layerList, isDragging, dragStart>>
  /\ UNCHANGED notEditor

\* img.onload that puts the new layer under the others
LayerLoadedAtBottom(k) ==
  /\ k \in 1..Len(loading)
  /\ LET img == loading[k]
         filename == img.src
         layer == [img |-> img, filename |-> filename,
                   x |-> (canvas.width - ImgWidth(filename)) \div 2,
                   y |-> (canvas.height - ImgHeight(filename)) \div 2,
                   scale |-> 1000,
                   originalW |-> ImgWidth(filename),
                   originalH |-> ImgHeight(filename)]
     IN  /\ layers' = <<layer>> \o layers
         /\ selectedIndex' = Len(layers') - 1
  /\ loading' = Splice(loading, k - 1)
  /\ ListShown
  /\ UNCHANGED <<canvas, isDragging, dragStart, cmds>>
  /\ UNCHANGED notEditor

\* img.onload of the k-th pending load: the layer is pushed and selected
LayerLoaded(k) ==
  /\ k \in 1..Len(loading)
  /\ LET img == loading[k]
         filename == img.src
         layer == [img |-> img, filename |-> filename,
                   x |-> (canvas.width - ImgWidth(filename)) \div 2,
                   y |-> (canvas.height - ImgHeight(filename)) \div 2,
                   scale |-> 1000,
                   originalW |-> ImgWidth(filename),
                   originalH |-> ImgHeight(filename)]
     IN  /\ layers' = Append(layers, layer)
         /\ selectedIndex' = Len(layers') - 1
  /\ loading' = Splice(loading, k - 1)
  /\ ListShown
  /\ UNCHANGED <<canvas, isDragging, dragStart, cmds>>
  /\ UNCHANGED notEditor

\* the k-th pending load fails: img.onload never runs
LoadFailed(k) ==
  /\ k \in 1..Len(loading)
  /\ loading' = Splice(loading, k - 1)
  /\ UNCHANGED <<canvas, layers, selectedIndex, layerList, isDragging, dragStart, cmds>>
  /\ UNCHANGED notEditor

\* selectLayer(i), from a click on item i of the layer list
SelectLayer(i) ==
  /\ Command
  /\ i \in 0..(layerList - 1)
  /\ selectedIndex' = i
  /\ layers' = layers
  /\ ListShown
  /\ UNCHANGED <<canvas, loading, isDragging, dragStart>>
  /\ UNCHANGED notEditor

\* Moved in which the selection stays at its index
MovedSelectionStays(i, dir) ==
  LET newI == i + dir
  IN  IF newI < 0 \/ newI >= Len(layers)
        THEN [returns |-> TRUE, layers |-> layers, selectedIndex |-> selectedIndex]
        ELSE [returns |-> FALSE,
              layers |-> [layers EXCEPT ![i + 1] = layers[newI + 1],
                                        ![newI + 1] = layers[i + 1]],
              selectedIndex |-> selectedIndex]

\* what moveLayer(i, dir) makes of layers and selectedIndex, and whether it
\* takes the early return
Moved(i, dir) ==
  LET newI == i + dir
  IN  IF newI < 0 \/ newI >= Len(layers)
        THEN [returns |-> TRUE, layers |-> layers, selectedIndex |-> selectedIndex]
        ELSE [returns |-> FALSE,
              layers |-> [layers EXCEPT ![i + 1] = layers[newI + 1],
                                        ![newI + 1] = layers[i + 1]],
              selectedIndex |-> IF selectedIndex = i THEN newI
                                ELSE IF selectedIndex = newI THEN i
                                ELSE selectedIndex]

\* moveLayer(i, dir), from the up or down button of item i
MoveLayer(i, dir) ==
  /\ Command
  /\ i \in 0..(layerList - 1)
  /\ (dir = -1 => i > 0) /\ (dir = 1 => i < layerList - 1)
  /\ IF Moved(i, dir).returns
       THEN UNCHANGED <<layers, selectedIndex, layerList>>
       ELSE /\ layers' = Moved(i, dir).layers
            /\ selectedIndex' = Moved(i, dir).selectedIndex
            /\ ListShown
  /\ UNCHANGED <<canvas, loading, isDragging, dragStart>>
  /\ UNCHANGED notEditor

\* deleteSelected that removes the bottom layer
DeleteSelectedBottom ==
  /\ Command
  /\ IF selectedIndex < 0
       THEN UNCHANGED <<layers, selectedIndex, layerList>>
       ELSE /\ layers' = Splice(layers, 0)
            /\ selectedIndex' = IF Len(layers') > 0
                                  THEN Min(selectedIndex, Len(layers') - 1)
                                  ELSE -1
            /\ ListShown
  /\ UNCHANGED <<canvas, loading, isDragging, dragStart>>
  /\ UNCHANGED notEditor

\* deleteSelected that leaves selectedIndex as it is
DeleteSelectedNoRepair ==
  /\ Command
  /\ IF selectedIndex < 0
       THEN UNCHANGED <<layers, selectedIndex, layerList>>
       ELSE /\ layers' = Splice(layers, selectedIndex)
            /\ selectedIndex' = selectedIndex
            /\ ListShown
  /\ UNCHANGED <<canvas, loading, isDragging, dragStart>>
  /\ UNCHANGED notEditor

\* deleteSelected()
DeleteSelected ==
  /\ Command
  /\ IF selectedIndex < 0
       THEN UNCHANGED <<layers, selectedIndex, layerList>>
       ELSE /\ layers' = Splice(layers, selectedIndex)
            /\ selectedIndex' = IF Len(layers') > 0
                                  THEN Min(selectedIndex, Len(layers') - 1)
                                  ELSE -1
            /\ ListShown
  /\ UNCHANGED <<canvas, loading, isDragging, dragStart>>
  /\ UNCHANGED notEditor

\* the selected layer is replaced by layer l; the list and the panel follow
SelectedBecomes(l) ==
  /\ layers' = [layers EXCEPT ![Selected] = l]
  /\ ListShown

\* nothing of the scene changes
SceneKept == UNCHANGED <<layers, layerList>>

\* canvas mousedown at canvas point (x, y)
MouseDown(x, y) ==
  /\ Command
  /\ LET clickedLayer == LayerAt(x, y)
     IN  IF clickedLayer >= 0
           THEN /\ selectedIndex' = clickedLayer
                /\ layers' = layers
                /\ ListShown
                /\ isDragging' = TRUE
                /\ dragStart' = <<x - layers[clickedLayer + 1].x,
                                  y - layers[clickedLayer + 1].y>>
           ELSE UNCHANGED <<selectedIndex, layers, layerList, isDragging, dragStart>>
  /\ UNCHANGED <<canvas, loading>>
  /\ UNCHANGED notEditor

\* canvas mousemove at canvas point (x, y)
MouseMove(x, y) ==
  /\ Command
  /\ IF ~isDragging \/ selectedIndex < 0 \/ Selected = 0
       THEN SceneKept
       ELSE SelectedBecomes([layers[Selected] EXCEPT !.x = x - dragStart[1],
                                                     !.y = y - dragStart[2]])
  /\ UNCHANGED <<canvas, selectedIndex, loading, isDragging, dragStart>>
  /\ UNCHANGED notEditor

\* canvas mouseup, mouseleave
MouseUp ==
  /\ Command
  /\ isDragging' = FALSE
  /\ UNCHANGED <<canvas, layers, selectedIndex, layerList, loading, dragStart>>
  /\ UNCHANGED notEditor

\* Math.max(0.05, Math.min(10, scale))
ClampScale(scale) == Max(MinScale, Min(MaxScale, scale))

\* canvas wheel: deltaY > 0 shrinks by 0.95, otherwise grows by 1.05
Wheel(down) ==
  /\ Command
  /\ IF Selected = 0 THEN SceneKept
     ELSE LET delta == IF down THEN 95 ELSE 105
              scale == (layers[Selected].scale * delta) \div 100
          IN  SelectedBecomes([layers[Selected] EXCEPT !.scale = ClampScale(scale)])
  /\ UNCHANGED <<canvas, selectedIndex, loading, isDragging, dragStart>>
  /\ UNCHANGED notEditor

\* updateScale(), on input of #scaleSlider
UpdateScale(slider) ==
  /\ Command
  /\ IF Selected = 0 THEN SceneKept
     ELSE SelectedBecomes([layers[Selected] EXCEPT !.scale = slider * 10])
  /\ UNCHANGED <<canvas, selectedIndex, loading, isDragging, dragStart>>
  /\ UNCHANGED notEditor

\* updateFromSize(), on change of #inputW or #inputH
UpdateFromSize(inputW) ==
  /\ Command
  /\ IF Selected = 0 THEN SceneKept
     ELSE LET layer == layers[Selected]
              newW == IntOr(inputW, layer.originalW)
          IN  SelectedBecomes([layer EXCEPT !.scale = (newW * 1000) \div layer.originalW])
  /\ UNCHANGED <<canvas, selectedIndex, loading, isDragging, dragStart>>
  /\ UNCHANGED notEditor

\* updateFromInputs(), on change of #inputX or #inputY
UpdateFromInputs(inputX, inputY) ==
  /\ Command
  /\ IF Selected = 0 THEN SceneKept
     ELSE SelectedBecomes([layers[Selected] EXCEPT !.x = IntOr(inputX, 0),
                                                   !.y = IntOr(inputY, 0)])
  /\ UNCHANGED <<canvas, selectedIndex, loading, isDragging, dragStart>>
  /\ UNCHANGED notEditor

Presets == {"tl", "tr", "bl", "br", "center", "fit"}

\* positionPreset(preset)
PositionPreset(preset) ==
  /\ Command
  /\ IF Selected = 0 THEN SceneKept
     ELSE LET layer == layers[Selected]
              w == Scaled(layer.originalW, layer.scale)
              h == Scaled(layer.originalH, layer.scale)
              fit == Min((canvas.width * 1000) \div layer.originalW,
                         (canvas.height * 1000) \div layer.originalH)
          IN  SelectedBecomes(
                CASE preset = "tl" -> [layer EXCEPT !.x = 0, !.y = 0]
                  [] preset = "tr" -> [layer EXCEPT !.x = canvas.width - w, !.y = 0]
                  [] preset = "bl" -> [layer EXCEPT !.x = 0, !.y = canvas.height - h]
                  [] preset = "br" ->
                       [layer EXCEPT !.x = canvas.width - w, !.y = canvas.height - h]
                  [] preset = "center" ->
                       [layer EXCEPT !.x = (canvas.width - w) \div 2,
                                     !.y = (canvas.height - h) \div 2]
                  [] preset = "fit" ->
                       [layer EXCEPT
                          !.scale = fit,
                          !.x = (canvas.width - Scaled(layer.originalW, fit)) \div 2,
                          !.y = (canvas.height - Scaled(layer.originalH, fit)) \div 2])
  /\ UNCHANGED <<canvas, selectedIndex, loading, isDragging, dragStart>>
  /\ UNCHANGED notEditor

\* setCanvasSize(w, h), w and h as pairs
SetCanvasSize(w, h) ==
  /\ Command
  /\ canvas' = [width |-> ToCanvasDim(w, DefaultWidth),
                height |-> ToCanvasDim(h, DefaultHeight)]
  /\ UNCHANGED <<layers, selectedIndex, layerList, loading, isDragging, dragStart>>
  /\ UNCHANGED notEditor

\* applyCanvasSize(), from the Apply button of the custom size
ApplyCanvasSize(inputW, inputH) ==
  LET w == WideOr(inputW, 1080)
      h == WideOr(inputH, 1920)
  IN  SetCanvasSize(w, h)

\* saveImage(), doSaveGif(), up to the fetch: the selection is cleared for
\* the render and put back
SaveImage ==
  /\ Command
  /\ LET oldSelected == selectedIndex
     IN  selectedIndex' = oldSelected
  /\ UNCHANGED <<canvas, layers, layerList, loading, isDragging, dragStart>>
  /\ UNCHANGED notEditor

NextEditor ==
  \/ \E f \in ImageOptions : AddLayer(f)
  \/ \E k \in 1..Len(loading) : LayerLoaded(k)
  \/ \E k \in 1..Len(loading) : LoadFailed(k)
  \/ \E i \in 0..(layerList - 1) : SelectLayer(i)
  \/ \E i \in 0..(layerList - 1), dir \in {-1, 1} : MoveLayer(i, dir)
  \/ DeleteSelected
  \/ \E pt \in MousePoints : MouseDown(pt[1], pt[2])
  \/ \E pt \in MousePoints : MouseMove(pt[1], pt[2])
  \/ MouseUp
  \/ \E down \in BOOLEAN : Wheel(down)
  \/ \E v \in SliderValues : UpdateScale(v)
  \/ \E v \in TypedWidths : UpdateFromSize(v)
  \/ \E ix \in TypedPositions, iy \in TypedPositions : UpdateFromInputs(ix, iy)
  \/ \E preset \in Presets : PositionPreset(preset)
  \/ \E size \in SizePresets : SetCanvasSize(Wide(size[1]), Wide(size[2]))
  \/ \E size \in TypedSizes : ApplyCanvasSize(size[1], size[2])
  \/ SaveImage

\* the editor page under any sequence of commands and load events
SpecEditor == Init /\ [][NextEditor]_vars

(* ---------------------------- GIF exporter ----------------------------- *)
\* A number that may be NaN is <<n>> or <<>>. Durations are in tenths of a
\* second (3 s is 30), delays in milliseconds.

\* alpha below this value counts as transparent
AlphaThreshold == 128

\* the default show duration of /create-gif, in tenths of a second
DefaultDuration == 30

\* the delay of the blank frame, in milliseconds
BlankDelay == 100

\* magicR, magicG, magicB; 0xFF00FF; '#FF00FF'
Magenta == <<255, 0, 255>>

\* the pixels sharp can return: <<r, g, b, a>>
Pixels ==
  {<<c[1], c[2], c[3], a>> : c \in {<<10, 20, 30>>, Magenta}, a \in {0, 127, 128, 200, 255}}

\* the durations a caller sends: none or unparsable, 0, -0.5 s, 0.5 s, 3 s
DurationInputs == {<<>>, <<0>>, <<-5>>, <<5>>, <<30>>}

\* the RGBA bytes of a row of pixels
Bytes(pixels) ==
  [k \in 1..(4 * Len(pixels)) |-> pixels[((k - 1) \div 4) + 1][((k - 1) % 4) + 1]]

\* parseFloat(req.body.duration) || 3
DurationOr(d, dflt) == IF d = <<>> \/ d = <<0>> THEN <<dflt>> ELSE d

\* duration * 1000, in milliseconds
Times1000(d) == IF d = <<>> THEN <<>> ELSE <<d[1] * 100>>

\* GIFEncoder: setRepeat, setDelay, setQuality, setTransparent, start, finish
SetRepeat(e, n) == [e EXCEPT !.repeat = n]

SetDelay(e, ms) == [e EXCEPT !.delay = ms]

SetQuality(e, q) == [e EXCEPT !.quality = q]

SetTransparent(e, colour) == [e EXCEPT !.transparent = colour]

Start(e) == [e EXCEPT !.started = TRUE]

Finish(e) == [e EXCEPT !.finished = TRUE]

\* GIFEncoder addFrame(ctx): the pixels of the canvas, with the delay in force
AddFrame(e, data) ==
  [e EXCEPT !.frames = Append(e.frames, [data |-> data, delay |-> e.delay])]

\* ctx.fillStyle = '#FF00FF'; ctx.fillRect(0, 0, width, height)
FillRect(width, height, colour) ==
  [k \in 1..(4 * width * height) |->
     IF (k - 1) % 4 = 3 THEN 255 ELSE colour[((k - 1) % 4) + 1]]

\* the handler has the raw RGBA bytes of its image and copies them
GifRequest(handler, d, pixels) ==
  /\ gif.pc \in {"idle", "done"}
  /\ gif' = [handler |-> handler, pc |-> "binarize", asked |-> d,
             duration |-> IF handler = "create-gif"
                            THEN DurationOr(d, DefaultDuration) ELSE d,
             width |-> Len(pixels), height |-> 1, i |-> 0]
  /\ rawBuffer' = Bytes(pixels)
  /\ processedBuffer' = Bytes(pixels)
  /\ encoder' = NoEncoder
  /\ ctx' = <<>>
  /\ UNCHANGED notGif

\* one pass of the loop over the pixels: for (i = 0; i < length; i += 4)
Binarize ==
  /\ gif.pc = "binarize"
  /\ gif.i < Len(processedBuffer)
  /\ processedBuffer' =
       IF processedBuffer[gif.i + 4] < AlphaThreshold
         THEN [processedBuffer EXCEPT ![gif.i + 1] = Magenta[1],
                                      ![gif.i + 2] = Magenta[2],
                                      ![gif.i + 3] = Magenta[3],
                                      ![gif.i + 4] = 255]
         ELSE processedBuffer
  /\ gif' = [gif EXCEPT !.i = gif.i + 4]
  /\ UNCHANGED <<rawBuffer, encoder, ctx>>
  /\ UNCHANGED notGif

\* EncoderSetup with the repeat count of a looping GIF
EncoderSetupLoops ==
  /\ gif.pc = "binarize"
  /\ gif.i >= Len(processedBuffer)
  /\ encoder' =
       Start(SetTransparent(SetQuality(SetDelay(SetRepeat(NoEncoder, 0),
                                                Times1000(gif.duration)), 10),
                            Magenta))
  /\ gif' = [gif EXCEPT !.pc = "frame1"]
  /\ UNCHANGED <<rawBuffer, processedBuffer, ctx>>
  /\ UNCHANGED notGif

\* new GIFEncoder, setRepeat(-1), setDelay(duration * 1000), setQuality(10),
\* setTransparent(0xFF00FF), start()
EncoderSetup ==
  /\ gif.pc = "binarize"
  /\ gif.i >= Len(processedBuffer)
  /\ encoder' =
       Start(SetTransparent(SetQuality(SetDelay(SetRepeat(NoEncoder, -1),
                                                Times1000(gif.duration)), 10),
                            Magenta))
  /\ gif' = [gif EXCEPT !.pc = "frame1"]
  /\ UNCHANGED <<rawBuffer, processedBuffer, ctx>>
  /\ UNCHANGED notGif

\* createCanvas, putImageData of the processed bytes, addFrame
ImageFrame ==
  /\ gif.pc = "frame1"
  /\ ctx' = processedBuffer
  /\ encoder' = AddFrame(encoder, ctx')
  /\ gif' = [gif EXCEPT !.pc = "frame2"]
  /\ UNCHANGED <<rawBuffer, processedBuffer>>
  /\ UNCHANGED notGif

\* BlankFrame that sets the short delay after it has added the frame
BlankFrameLateDelay ==
  /\ gif.pc = "frame2"
  /\ ctx' = FillRect(gif.width, gif.height, Magenta)
  /\ encoder' = SetDelay(AddFrame(encoder, ctx'), <<BlankDelay>>)
  /\ gif' = [gif EXCEPT !.pc = "finish"]
  /\ UNCHANGED <<rawBuffer, processedBuffer>>
  /\ UNCHANGED notGif

\* fillRect with '#FF00FF', setDelay(100), addFrame
BlankFrame ==
  /\ gif.pc = "frame2"
  /\ ctx' = FillRect(gif.width, gif.height, Magenta)
  /\ encoder' = AddFrame(SetDelay(encoder, <<BlankDelay>>), ctx')
  /\ gif' = [gif EXCEPT !.pc = "finish"]
  /\ UNCHANGED <<rawBuffer, processedBuffer>>
  /\ UNCHANGED notGif

\* encoder.finish(), encoder.out.getData()
GifFinish ==
  /\ gif.pc = "finish"
  /\ encoder' = Finish(encoder)
  /\ gif' = [gif EXCEPT !.pc = "done"]
  /\ UNCHANGED <<rawBuffer, processedBuffer, ctx>>
  /\ UNCHANGED notGif

\* the rows of pixels an image can have
PixelRows == UNION {[1..n -> Pixels] : n \in 1..MaxPixels}

NextGif ==
  \/ \E handler \in {"create-gif", "save-editor"}, d \in DurationInputs,
        pixels \in PixelRows : GifRequest(handler, d, pixels)
  \/ Binarize
  \/ EncoderSetup
  \/ ImageFrame
  \/ BlankFrame
  \/ GifFinish

\* the exporter is asked with an empty store
InitGif ==
  /\ Init
  /\ images = {}

\* the exporter on every image and duration of the bounds
SpecGif == InitGif /\ [][NextGif]_vars

(* ---------------------------- export render ---------------------------- *)

\* The render is modelled on one row of pixels with one colour channel, at
\* whole-pixel coordinates, and drawImage resamples to the nearest pixel.

\* a pixel of a raster or of the canvas: <<value, alpha>>
Texels == {<<0, 0>>, <<200, 128>>, <<50, 255>>, <<90, 255>>}

\* what layer.img can be: absent (<<>>), or an Image with its complete flag
\* and its one pixel
Rasters ==
  {<<>>} \cup {<<[complete |-> TRUE, pixels |-> <<t>>]>> : t \in Texels}
         \cup {<<[complete |-> FALSE, pixels |-> <<(<<Magenta[1], 255>>)>>]>>}

\* the layers a rendered scene is made of
SceneLayers ==
  {[img |-> r, filename |-> "a.png", x |-> x, y |-> 0, scale |-> s,
    originalW |-> 1, originalH |-> 1] :
     r \in Rasters, x \in {0, 1}, s \in {1000, 2000}}

\* the scenes rendered
Scenes == UNION {[1..n -> SceneLayers] : n \in 0..MaxLayers}

\* values of the outputScale select, parsed
OutputScales == {<<1>>, <<2>>, <<3>>, <<4>>}

\* sctx.clearRect over width pixels
ClearRect(width) == [c \in 1..width |-> <<0, 0>>]

\* source-over compositing of pixel src onto pixel dst
SourceOver(src, dst) ==
  IF src[2] = 255 THEN src
  ELSE IF src[2] = 0 THEN dst
  ELSE LET under == (dst[2] * (255 - src[2])) \div 255
           alpha == src[2] + under
       IN  <<(src[1] * src[2] + dst[1] * under) \div alpha, alpha>>

\* sctx.fillRect(0, 0, width, height) with the opaque colour
FillOver(buf, colour) == [c \in 1..Len(buf) |-> SourceOver(<<colour, 255>>, buf[c])]

\* sctx.drawImage(img, x, y, w, h) on the row: columns x .. x + w - 1
DrawImage(buf, img, x, y, w, h) ==
  [c \in 1..Len(buf) |->
     IF c - 1 >= x /\ c - 1 < x + w /\ y <= 0 /\ 0 < y + h
       THEN SourceOver(img.pixels[(((c - 1 - x) * Len(img.pixels)) \div w) + 1], buf[c])
       ELSE buf[c]]

\* the callback of layers.forEach for one layer, on the pixels
PaintOn(buf, layer, scale) ==
  IF Len(layer.img) > 0 /\ layer.img[1].complete
    THEN DrawImage(buf, layer.img[1],
                   layer.x * scale, layer.y * scale,
                   Scaled(layer.originalW, layer.scale) * scale,
                   Scaled(layer.originalH, layer.scale) * scale)
    ELSE buf

\* GetScaledCanvas filling the background whether or not the checkbox is on
GetScaledCanvasAlwaysFills(outputScale) ==
  /\ render.pc = "idle"
  /\ LET scale == IntOr(outputScale, 1)
         width == ToCanvasDim(TimesWide(Wide(canvas.width), scale), DefaultWidth)
         height == ToCanvasDim(TimesWide(Wide(canvas.height), scale), DefaultHeight)
     IN  /\ render' = [pc |-> "layers", scale |-> scale, width |-> width,
                       height |-> height, i |-> 0]
         /\ sctx' = FillOver(ClearRect(width), bgColor)
  /\ drawn' = <<>>
  /\ UNCHANGED <<useBgColor, bgColor, canvas, layers>>
  /\ UNCHANGED notCompose

\* getScaledCanvas() up to the loop: the scale, the fresh canvas, clearRect,
\* the background when the checkbox is on
GetScaledCanvas(outputScale) ==
  /\ render.pc = "idle"
  /\ LET scale == IntOr(outputScale, 1)
         width == ToCanvasDim(TimesWide(Wide(canvas.width), scale), DefaultWidth)
         height == ToCanvasDim(TimesWide(Wide(canvas.height), scale), DefaultHeight)
     IN  /\ render' = [pc |-> "layers", scale |-> scale, width |-> width,
                       height |-> height, i |-> 0]
         /\ sctx' = IF useBgColor THEN FillOver(ClearRect(width), bgColor)
                    ELSE ClearRect(width)
  /\ drawn' = <<>>
  /\ UNCHANGED <<useBgColor, bgColor, canvas, layers>>
  /\ UNCHANGED notCompose

\* PaintLayer on a scene painted from the top layer down
PaintLayerTopFirst ==
  /\ render.pc = "layers"
  /\ render.i < Len(layers)
  /\ LET layer == layers[Len(layers) - render.i]
     IN  /\ sctx' = PaintOn(sctx, layer, render.scale)
         /\ drawn' = IF Len(layer.img) > 0 /\ layer.img[1].complete
                       THEN Append(drawn, Len(layers) - render.i - 1) ELSE drawn
  /\ render' = [render EXCEPT !.i = render.i + 1]
  /\ UNCHANGED <<useBgColor, bgColor, canvas, layers>>
  /\ UNCHANGED notCompose

\* PaintLayer where a layer without a raster ends the loop with an exception
PaintLayerThrows ==
  /\ render.pc = "layers"
  /\ render.i < Len(layers)
  /\ LET layer == layers[render.i + 1]
     IN  IF Len(layer.img) > 0 /\ layer.img[1].complete
           THEN /\ sctx' = PaintOn(sctx, layer, render.scale)
                /\ drawn' = Append(drawn, render.i)
                /\ render' = [render EXCEPT !.i = render.i + 1]
           ELSE /\ render' = [render EXCEPT !.pc = "failed"]
                /\ UNCHANGED <<sctx, drawn>>
  /\ UNCHANGED <<useBgColor, bgColor, canvas, layers>>
  /\ UNCHANGED notCompose

\* one call of the callback of layers.forEach, for the layer at index render.i
PaintLayer ==
  /\ render.pc = "layers"
  /\ render.i < Len(layers)
  /\ LET layer == layers[render.i + 1]
     IN  /\ sctx' = PaintOn(sctx, layer, render.scale)
         /\ drawn' = IF Len(layer.img) > 0 /\ layer.img[1].complete
                       THEN Append(drawn, render.i) ELSE drawn
  /\ render' = [render EXCEPT !.i = render.i + 1]
  /\ UNCHANGED <<useBgColor, bgColor, canvas, layers>>
  /\ UNCHANGED notCompose

\* forEach is over: scaledCanvas.toDataURL('image/png')
ToDataURL ==
  /\ render.pc = "layers"
  /\ render.i >= Len(layers)
  /\ render' = [render EXCEPT !.pc = "done"]
  /\ UNCHANGED <<useBgColor, bgColor, sctx, drawn, canvas, layers>>
  /\ UNCHANGED notCompose

\* the canvases of the rendered scenes, as typed into the custom size
SceneCanvases == {[width |-> 2, height |-> 1], [width |-> 0, height |-> 1]}

\* the page when an export is asked for: a scene on a small canvas, the
\* selection cleared by saveImage, no load pending
SceneInit ==
  /\ canvas \in SceneCanvases
  /\ layers \in Scenes
  /\ selectedIndex = -1
  /\ layerList = Len(layers)
  /\ loading = <<>>
  /\ isDragging = FALSE
  /\ dragStart = <<0, 0>>
  /\ cmds = 0
  /\ useBgColor \in BOOLEAN
  /\ bgColor \in {0, 90}
  /\ render = NoRender
  /\ sctx = <<>>
  /\ drawn = <<>>

InitCompose ==
  /\ StoreInit
  /\ images = {}
  /\ PutsIdle
  /\ GifIdle
  /\ SceneInit

NextCompose ==
  \/ \E outputScale \in OutputScales : GetScaledCanvas(outputScale)
  \/ PaintLayer
  \/ ToDataURL

\* the export render on every scene of the bounds
SpecCompose == InitCompose /\ [][NextCompose]_vars

(* ------------------------------ properties ----------------------------- *)

\* a GET that has just been answered and under which no table changed: the
\* tables of this state are the tables every one of its queries read
Answered == get.pc = "done" /\ get.quiet

\* the pointers of the aliases whose slug is f
Pointers(f) == {l.image_filename : l \in SelectLink(static_links, f)}

Stored(f) == SelectImage(images, f) # {}

\* the response carries exactly the type and bytes of row r
Sends(r) == get.ctype = r.mimetype /\ get.body = r.data

C2_DanglingFallsThrough ==
  (Answered /\ get.filename \notin Reserved) =>
    \A t \in Pointers(get.filename) :
      (t = NULL \/ ~Stored(t)) =>
        /\ Stored(get.filename) =>
             /\ get.outcome = "direct"
             /\ \A r \in SelectImage(images, get.filename) : Sends(r)
        /\ ~Stored(get.filename) => get.outcome = "notfound"

\* the alias points at a name that is not stored and the image stored under
\* the requested name is served
C2_Witness ==
  /\ Answered
  /\ get.outcome = "direct"
  /\ \E t \in Pointers(get.filename) : t # NULL /\ ~Stored(t)

\* C3: a reserved name is handed on at once: the request makes no query, and
\* no image is sent whatever the tables hold.
C3_ReservedDefers ==
  get.filename \in Reserved =>
    /\ get.pc = "done"
    /\ get.outcome = "reserved"
    /\ get.ctype = NONE /\ get.body = NONE /\ get.cache = NONE

\* a reserved name is handed on although an alias of that name points at a
\* stored image
C3_Witness ==
  /\ get.pc = "done"
  /\ get.filename \in Reserved
  /\ \E t \in Pointers(get.filename) : Truthy(t) /\ Stored(t)

\* the outcome of first-match precedence, with the alias stage taken by any
\* non-null pointer whose target is stored
Precedence(f) ==
  IF f \in Reserved THEN "reserved"
  ELSE IF \E t \in Pointers(f) : t # NULL /\ Stored(t) THEN "alias"
  ELSE IF Stored(f) THEN "direct"
  ELSE "notfound"

\* the outcome of first-match precedence, with the alias stage taken by a
\* non-null, non-empty pointer whose target is stored
TruthyPrecedence(f) ==
  IF f \in Reserved THEN "reserved"
  ELSE IF \E t \in Pointers(f) : Truthy(t) /\ Stored(t) THEN "alias"
  ELSE IF Stored(f) THEN "direct"
  ELSE "notfound"

C5_CacheFollowsPath ==
  get.pc = "done" =>
    /\ get.outcome = "alias" <=> get.cache = NoCache
    /\ get.outcome = "direct" <=> get.cache = LongCache
    /\ get.outcome \notin {"alias", "direct"} <=> get.cache = NONE

\* an image that is stored under its own name is served through an alias,
\* uncacheable
C5_Witness ==
  /\ Answered
  /\ get.outcome = "alias"
  /\ get.cache = NoCache
  /\ \E t \in Pointers(get.filename) : Stored(t)


\* the names under which table tbl holds a row
NamesIn(tbl) == {r.filename : r \in tbl}

\* C6: a step that removes a stored image (the DELETE of /delete/:filename,
\* the DELETE of a renaming edit) leaves table static_links as it is: every
\* alias keeps its slug and its pointer.
C6_RemovalKeepsAliases ==
  [][NamesIn(images) \ NamesIn(images') # {} => static_links' = static_links]_vars

\* an image has just been deleted and an alias still points at its name
C6_Witness ==
  /\ wr.pc = "done"
  /\ wr.op = "delete"
  /\ wr.status = "200"
  /\ ~Stored(wr.filename)
  /\ \E l \in static_links : l.image_filename = wr.filename

\* the handlers that store an image with one upsert
UpsertOps == {"upload", "create-transparent", "create-gif", "save-editor"}

\* the request has just written the row (filename, mimetype, data) it holds
JustPut(w) ==
  \/ w.pc = "done" /\ w.status \notin Failures /\ w.op \in UpsertOps \cup {"edit"}
  \/ w.pc = "setlink"

\* C7: a write to an existing name replaces type and bytes in one step. Every
\* step of an upsert or of a same-name edit that finds a row under its name
\* leaves exactly the row (name, new type, new bytes); and every image GET
\* sends is, type and bytes together, one row of the table at its query, and
\* GET answers not-found only when no row is under the name at its query.
C7_WholeRowReplaced ==
  [][/\ (JustPut(wr') /\ wr' # wr /\ wr'.replaced) =>
          SelectImage(images', wr'.filename) =
            {ImageRow(wr'.filename, wr'.mimetype, wr'.data)}
     /\ (get'.pc = "done" /\ get' # get /\ get'.outcome \in {"alias", "direct"}) =>
          \E r \in images :
            /\ r.filename = IF get'.outcome = "alias" THEN get.target ELSE get.filename
            /\ get'.ctype = r.mimetype /\ get'.body = r.data
     /\ (get'.pc = "done" /\ get' # get /\ get'.outcome = "notfound") =>
          SelectImage(images, get.filename) = {}
    ]_vars

\* a same-name edit has just replaced the row of the name a GET in flight is
\* about to read
C7_Witness ==
  /\ wr.pc = "done" /\ wr.op = "edit" /\ wr.status = "200"
  /\ wr.replaced /\ wr.wrote
  /\ get.pc = "image" /\ get.filename = wr.filename /\ ~get.quiet

\* C8: after a successful put(name, mime, bytes), and until the next write, a
\* get of the name returns exactly (mime, bytes), whether the name existed
\* before or not; and no two rows of table images share a name.
C8_RoundTrip ==
  /\ \A r1, r2 \in images : r1.filename = r2.filename => r1 = r2
  /\ (JustPut(wr) /\ wr.op \in UpsertOps) =>
       SelectImage(images, wr.filename) =
         {ImageRow(wr.filename, wr.mimetype, wr.data)}
  /\ (Answered /\ get.outcome = "direct") =>
       SelectImage(images, get.filename) =
         {ImageRow(get.filename, get.ctype, get.body)}

\* an upload has just replaced the bytes stored under its name, and another
\* image is stored besides
C8_Witness ==
  /\ wr.pc = "done" /\ wr.op = "upload" /\ wr.status = "200"
  /\ wr.replaced /\ wr.wrote
  /\ Cardinality(images) > 1

\* C9: DELETE /delete/:filename answers success exactly when a row was
\* stored under the name, and then the name is gone and every other row is
\* untouched; for a name that is not stored, also one that differs from a
\* stored name in case only, it answers 404 and the table is unchanged.
C9_DeleteReportsExistence ==
  [][\A f \in DeletePaths :
       DeleteImage(f) =>
         /\ wr'.status = "200" <=> Stored(f)
         /\ wr'.status = "404" <=> ~Stored(f)
         /\ SelectImage(images', f) = {}
         /\ images' = images \ SelectImage(images, f)
         /\ ~Stored(f) => images' = images
    ]_vars

\* a delete has just answered 404 and changed nothing while another image
\* is stored
C9_Witness ==
  /\ wr.pc = "done" /\ wr.op = "delete" /\ wr.status = "404"
  /\ ~wr.wrote
  /\ Stored("a.png")

\* C10: whenever upload, edit, create-gif or save-editor reports a failure,
\* the request has changed neither table.
C10_NoPartialWrite ==
  (/\ wr.pc = "done"
   /\ wr.op \in {"upload", "edit", "create-gif", "save-editor"}
   /\ wr.status \in Failures) => ~wr.wrote

\* C11: every step of GET /:filename whose query the store rejects ends the
\* request with an error result: a failed alias lookup, a failed target
\* lookup or a failed image lookup is never followed by a further lookup.
C11_FailuresSurface ==
  [][(/\ ~dbUp
      /\ \/ \E f \in PathNames : GetLink(f)
         \/ GetLinkImage
         \/ GetImage) =>
       (get'.pc = "done" /\ get'.outcome = "error")
    ]_vars

\* C12: a GET that has read an alias pointer ends in a legitimate outcome
\* whatever happened to the tables since: its target query serves the row
\* now stored under the target, or finds none and goes on to the direct
\* query, which serves the row now stored under the requested name or
\* answers not-found; the request never ends in an error.
C12_RaceTolerant ==
  [][/\ (get.pc = "linkimg" /\ get' # get /\ get'.pc # "linkimg") =>
          IF Stored(get.target)
            THEN /\ get'.pc = "done" /\ get'.outcome = "alias"
                 /\ SelectImage(images, get.target) =
                      {ImageRow(get.target, get'.ctype, get'.body)}
            ELSE get'.pc = "image"
     /\ (get.pc = "image" /\ get' # get /\ get'.pc # "image") =>
          IF Stored(get.filename)
            THEN /\ get'.pc = "done" /\ get'.outcome = "direct"
                 /\ SelectImage(images, get.filename) =
                      {ImageRow(get.filename, get'.ctype, get'.body)}
            ELSE get'.pc = "done" /\ get'.outcome = "notfound"
    ]_vars

\* the target of the pointer a GET has read has just been deleted, before
\* the GET reads the target's row
C12_Witness ==
  /\ get.pc = "linkimg" /\ ~get.quiet
  /\ wr.pc = "done" /\ wr.op = "delete" /\ wr.status = "200"
  /\ wr.filename = get.target
  /\ ~Stored(get.target)

\* C13: once two concurrent puts to one name have both completed, the table
\* holds exactly one row under the name, and it is in full (type and bytes)
\* the row of the put whose upsert ran last.
C13_LastWriteWins ==
  \A i, j \in Writers :
    (/\ put[i].pc = "done" /\ put[j].pc = "done"
     /\ put[i].filename = put[j].filename
     /\ put[i].at < put[j].at) =>
      SelectImage(images, put[j].filename) =
        {ImageRow(put[j].filename, put[j].mimetype, put[j].data)}

\* two puts to one name that differ in type and in bytes have both completed
C13_Witness ==
  /\ put[1].pc = "done" /\ put[2].pc = "done"
  /\ put[1].filename = put[2].filename
  /\ put[1].mimetype # put[2].mimetype
  /\ put[1].data # put[2].data
  /\ put[2].at < put[1].at

\* C14: after any sequence of editor commands and load events, selectedIndex
\* is -1 or an index of the layer sequence: 0 <= selectedIndex < layers.length.
C14_SelectionValid ==
  selectedIndex = -1 \/ (0 <= selectedIndex /\ selectedIndex < Len(layers))

\* two layers are shown and a mousedown has put the selection on the lower
\* one, which is being dragged
C14_Witness ==
  /\ Len(layers) = 2
  /\ layerList = 2
  /\ selectedIndex = 0
  /\ isDragging

\* C15: after any sequence of scale-changing commands (wheel, scale slider,
\* width input, the fit preset) every layer's scale lies within [0.05, 10].
C15_ScaleInRange ==
  \A i \in 1..Len(layers) :
    MinScale <= layers[i].scale /\ layers[i].scale <= MaxScale

\* pixel p (from 1) of a row of RGBA bytes
PixelOf(buf, p) == <<buf[4 * p - 3], buf[4 * p - 2], buf[4 * p - 1], buf[4 * p]>>

\* C16: a finished export has exactly two frames, the image frame (the
\* processed bytes) first and the blank frame second; the blank frame is
\* magenta (255,0,255) in every pixel, magenta is the colour declared
\* transparent, and the repeat count is -1 (play once).
C16_TwoFramesPlayOnce ==
  /\ Len(encoder.frames) <= 2
  /\ gif.pc = "done" =>
       /\ encoder.finished
       /\ Len(encoder.frames) = 2
       /\ encoder.frames[1].data = processedBuffer
       /\ \A p \in 1..(gif.width * gif.height) :
            PixelOf(encoder.frames[2].data, p) = <<255, 0, 255, 255>>
       /\ encoder.transparent = <<255, 0, 255>>
       /\ encoder.repeat = -1

\* /save-editor has exported an image with an opaque pixel that is not magenta
C16_Witness ==
  /\ gif.pc = "done"
  /\ gif.handler = "save-editor"
  /\ \E p \in 1..gif.width : PixelOf(encoder.frames[1].data, p) = <<10, 20, 30, 255>>

\* C17: once the loop has run over the buffer, every pixel whose alpha was
\* below 128 is (255,0,255) with alpha 255, every other pixel has its RGB
\* unchanged and alpha 255.
C17_AlphaBinarized ==
  gif.pc \in {"frame1", "frame2", "finish", "done"} =>
    \A p \in 1..gif.width :
      LET raw == PixelOf(rawBuffer, p)
          out == PixelOf(processedBuffer, p)
      IN  IF raw[4] < 128 THEN out = <<255, 0, 255, 255>>
          ELSE out = <<raw[1], raw[2], raw[3], 255>>

\* C18: frame 1 carries the caller's show duration (a positive number of
\* seconds) times 1000 ms, frame 2 carries the fixed 100 ms; a frame carries
\* the delay set just before it was added, so the short delay is never on
\* frame 1 and the show duration never on frame 2.
C18_FrameDelays ==
  /\ (Len(encoder.frames) >= 1 /\ gif.asked # <<>> /\ gif.asked # <<0>>) =>
       encoder.frames[1].delay = <<gif.asked[1] * 100>>
  /\ Len(encoder.frames) >= 2 => encoder.frames[2].delay = <<100>>

\* /create-gif has exported with a show duration of half a second
C18_Witness ==
  /\ gif.pc = "done"
  /\ gif.handler = "create-gif"
  /\ gif.asked = <<5>>
  /\ encoder.frames[1].delay = <<500>>
  /\ encoder.frames[2].delay = <<100>>

\* the layer has a raster that drawImage can take
HasRaster(layer) == Len(layer.img) > 0 /\ layer.img[1].complete

\* the canvas before the first layer: cleared, then the background if asked
Backdrop ==
  IF useBgColor THEN FillOver(ClearRect(render.width), bgColor)
  ELSE ClearRect(render.width)

\* the layers of scene painted onto buf, first to last
RECURSIVE Composite(_, _, _)
Composite(scene, buf, scale) ==
  IF scene = <<>> THEN buf
  ELSE Composite(Tail(scene), PaintOn(buf, Head(scene), scale), scale)

\* layer b has a raster with every pixel fully opaque, and the position and
\* size of layer a
Occludes(b, a) ==
  /\ HasRaster(b)
  /\ \A k \in 1..Len(b.img[1].pixels) : b.img[1].pixels[k][2] = 255
  /\ b.x = a.x /\ b.y = a.y /\ b.scale = a.scale
  /\ b.originalW = a.originalW /\ b.originalH = a.originalH

WithRaster ==
  SelectSeq([k \in 1..Len(layers) |-> k - 1], LAMBDA k : HasRaster(layers[k + 1]))

\* C20: a layer whose raster is absent is passed over and the loop goes on:
\* the render never fails, and when it is finished drawImage has been called
\* for exactly the layers that have a raster, in order, and the canvas is
\* what painting those layers alone gives.
C20_AbsentSkipped ==
  /\ render.pc \in {"idle", "layers", "done"}
  /\ render.pc = "done" =>
       /\ drawn = WithRaster
       /\ sctx = Composite(SelectSeq(layers, HasRaster), Backdrop, render.scale)

\* a scene whose bottom layer has no raster and whose top layer has one,
\* rendered
C20_Witness ==
  /\ render.pc = "done"
  /\ Len(layers) = 2
  /\ layers[1].img = <<>>
  /\ HasRaster(layers[2])
  /\ layers[2].img[1].pixels = <<(<<50, 255>>)>>
  /\ layers[2].x = 0
  /\ drawn = <<1>>
  /\ canvas.width = 2
  /\ sctx[1] = <<50, 255>>

C22_OutputDimensions ==
  render.pc # "idle" =>
    /\ render.scale \in 1..4
    /\ render.width = canvas.width * render.scale
    /\ render.height = canvas.height * render.scale
    /\ render.width >= 1
    /\ render.height >= 1

\* every pixel of the canvas is the background: the colour at full alpha when
\* the checkbox is on, transparent when it is off
Uniform ==
  /\ Len(sctx) = render.width
  /\ \A c \in 1..Len(sctx) :
       sctx[c] = IF useBgColor THEN <<bgColor, 255>> ELSE <<0, 0>>

\* C23: when the loop over the layers starts the canvas is uniform, cleared
\* and then filled with the background if one is asked for; the finished
\* render of a scene without layers is that uniform canvas, at every output
\* scale.
C23_EmptySceneUniform ==
  /\ (render.pc = "layers" /\ render.i = 0) => Uniform
  /\ (render.pc = "done" /\ layers = <<>>) => Uniform

\* a scene without layers and with the background on, rendered at scale 4
C23_Witness ==
  /\ render.pc = "done"
  /\ layers = <<>>
  /\ useBgColor
  /\ bgColor = 90
  /\ render.scale = 4
  /\ Len(sctx) = 8
  /\ sctx[8] = <<90, 255>>

\* C24: no slug of the alias table is a reserved route name.
C24_SlugsNotReserved == \A l \in static_links : l.slug \notin Reserved

\* C26: update-link changes the pointer of its alias and nothing else; the
\* resolution of the slug that follows an update-link to a stored image f
\* looks f up in the image store, and a lookup that finds f serves its
\* bytes and type.
C26_Reassignable ==
  [][/\ (wr'.op = "update-link" /\ wr'.pc = "done" /\ wr'.status = "success:true") =>
          /\ images' = images
          /\ \A l \in static_links :
               IF l.slug = wr'.slug
                 THEN LinkRow(l.slug, wr'.filename) \in static_links'
                 ELSE l \in static_links'
          /\ {l.slug : l \in static_links'} = {l.slug : l \in static_links}
     /\ ( /\ wr.op = "update-link" /\ wr.pc = "done" /\ wr.status = "success:true"
          /\ wr.filename # NULL /\ Stored(wr.filename)
          /\ SelectLink(static_links, wr.slug) # {}
          /\ get.pc \in {"idle", "done"}
          /\ get'.pc # "idle" /\ get'.filename = wr.slug ) =>
          /\ get'.pc = "linkimg"
          /\ get'.target = wr.filename
     /\ (get.pc = "linkimg" /\ get'.pc = "done" /\ Stored(get.target)) =>
          /\ get'.outcome = "alias"
          /\ \A r \in SelectImage(images, get.target) :
               get'.ctype = r.mimetype /\ get'.body = r.data
    ]_vars

\* C27: GET /links/<slug> is answered with the image the alias <slug> points
\* at, when that image is stored.
C27_LinksPathServes ==
  (Answered /\ get.filename \in LinkPaths) =>
    \A t \in Pointers("promo") :
      (Truthy(t) /\ Stored(t)) =>
        /\ get.outcome = "alias"
        /\ \A r \in SelectImage(images, t) : Sends(r)

\* the pointers of alias f name aliases, not stored images, and one of
\* those aliases points at a stored image
ChainOnly(f) ==
  /\ Pointers(f) # {}
  /\ \A t \in Pointers(f) : Truthy(t) /\ ~Stored(t)
  /\ \E t \in Pointers(f) : \E u \in Pointers(t) : Truthy(u) /\ Stored(u)

\* C28: a pointer is looked up in the image store only. When alias A points
\* at a name that is the slug of an alias B and not a stored image, the
\* answer for A is the direct lookup of A's own name, never B's target; and
\* a request makes its two lookups at most once each, in order.
C28_OneLevel ==
  [][/\ (Answered /\ get.filename \notin Reserved /\ ChainOnly(get.filename))' =>
          /\ get'.outcome = (IF Stored(get.filename) THEN "direct" ELSE "notfound")'
          /\ (\A r \in SelectImage(images, get.filename) : Sends(r))'
     /\ get.pc = "linkimg" => get'.pc \in {"linkimg", "image", "done"}
     /\ get.pc = "image" => get'.pc \in {"image", "done"}
    ]_vars

\* alias promo points at gif, which is an alias of a stored image and not a
\* stored image, and GET /promo is answered not-found
C28_Witness ==
  /\ Answered
  /\ get.filename = "promo"
  /\ ChainOnly("promo")
  /\ get.outcome = "notfound"

\* C25: the canvas is at least one pixel wide and one pixel high.
C25_CanvasPositive == canvas.width >= 1 /\ canvas.height >= 1

\* C29: deleteSelected with a selection removes the layer at selectedIndex
\* and keeps the others in their order; the selection becomes the smaller of
\* the old index and the new last index, or -1 when no layer is left. With
\* no selection it changes neither the layers nor the selection.
C29_DeleteSelected ==
  [][DeleteSelected =>
       IF selectedIndex < 0
         THEN layers' = layers /\ selectedIndex' = selectedIndex
         ELSE /\ Len(layers') = Len(layers) - 1
              /\ \A k \in 1..Len(layers') :
                   layers'[k] = layers[IF k <= selectedIndex THEN k ELSE k + 1]
              /\ selectedIndex' =
                   (IF Len(layers') = 0 THEN -1
                    ELSE IF selectedIndex <= Len(layers') - 1 THEN selectedIndex
                    ELSE Len(layers') - 1)
    ]_vars

\* the only layer was deleted while it was being dragged
C29_Witness ==
  /\ layers = <<>>
  /\ isDragging
  /\ selectedIndex = -1
  /\ layerList = 0

\* the index that moveLayer(i, dir) takes index k to
Swapped(i, dir, k) == IF k = i THEN i + dir ELSE IF k = i + dir THEN i ELSE k

\* C30: for every layer index i and dir -1 or 1, moveLayer(i, dir) with
\* i + dir a valid index exchanges the layers at i and i + dir, leaves the
\* others where they are and takes the selection along with its layer; with
\* i + dir out of range it changes neither the layers nor the selection.
C30_MoveLayer ==
  \A i \in 0..(Len(layers) - 1), dir \in {-1, 1} :
    LET m == Moved(i, dir)
    IN  IF i + dir < 0 \/ i + dir > Len(layers) - 1
          THEN m.returns /\ m.layers = layers /\ m.selectedIndex = selectedIndex
          ELSE /\ ~m.returns
               /\ Len(m.layers) = Len(layers)
               /\ \A k \in 0..(Len(layers) - 1) :
                    m.layers[Swapped(i, dir, k) + 1] = layers[k + 1]
               /\ m.selectedIndex =
                    (IF selectedIndex < 0 THEN -1 ELSE Swapped(i, dir, selectedIndex))

\* a.png was added before the canvas was made smaller and a.gif after it,
\* and a.gif, selected, has been moved below a.png
C30_Witness ==
  /\ cmds = 4
  /\ canvas = [width |-> 540, height |-> 960]
  /\ Len(layers) = 2
  /\ layers[1].filename = "a.gif" /\ layers[1].x = -270 /\ layers[1].y = -480
  /\ layers[2].filename = "a.png" /\ layers[2].x = 515 /\ layers[2].y = 935
  /\ selectedIndex = 0
  /\ layerList = 2

\* C31: when the load of a layer added by addLayer ends, the layer is appended
\* at the top of the sequence with scale 1 and centred on the canvas, the
\* layers already there keep their indices, and the new layer is the selected
\* one.
C31_LayerLoaded ==
  [][\A k \in 1..Len(loading) :
       LayerLoaded(k) =>
         /\ Len(layers') = Len(layers) + 1
         /\ \A i \in 1..Len(layers) : layers'[i] = layers[i]
         /\ LET top == layers'[Len(layers')]
            IN  /\ top.img = loading[k]
                /\ top.filename = loading[k].src
                /\ top.scale = 1000
                /\ 2 * top.x + top.originalW = canvas.width
                /\ 2 * top.y + top.originalH = canvas.height
         /\ selectedIndex' = Len(layers') - 1
    ]_vars

\* a.png was loaded onto a scene that held a.gif: it is on top, centred on
\* the 1080 x 1920 canvas, and selected
C31_Witness ==
  /\ Len(layers) = 2
  /\ canvas.width = 1080 /\ canvas.height = 1920
  /\ layers[1].filename = "a.gif"
  /\ layers[2].filename = "a.png" /\ layers[2].x = 515 /\ layers[2].y = 935
  /\ layers[2].scale = 1000
  /\ selectedIndex = 1
  /\ loading = <<>>

\* C34: layer order follows command order: whenever the load of a layer
\* ends, every layer already in the sequence comes from an earlier addLayer
\* command than the one whose layer now lands on top of them, whatever the
\* order in which the loads end.
C34_CommandOrder ==
  [][\A k \in 1..Len(loading) :
       LayerLoaded(k) =>
         \A i \in 1..Len(layers) : layers[i].img.id < loading[k].id
    ]_vars

\* C32: every GIF that /create-gif or /save-editor has encoded, and is about
\* to store, shows frame 1 for a time strictly greater than zero: a duration
\* that is missing, not a number, zero or negative never gives a frame-1
\* delay that is undefined or not positive.
C32_PositiveDelay ==
  gif.pc = "done" =>
    /\ encoder.frames[1].delay # <<>>
    /\ encoder.frames[1].delay[1] > 0

\* C35: in a finished export, every pixel whose alpha in the flattened buffer
\* was at or above the threshold is visible in frame 1, that is, its colour
\* there is not the colour declared transparent; the pixels of frame 1 that
\* have the transparent colour are exactly those whose alpha was below the
\* threshold.
C35_OpaqueVisible ==
  gif.pc = "done" =>
    \A p \in 1..(gif.width * gif.height) :
      LET raw == PixelOf(rawBuffer, p)
          out == PixelOf(encoder.frames[1].data, p)
      IN  (<<out[1], out[2], out[3]>> = encoder.transparent)
            <=> (raw[4] < AlphaThreshold)

\* C33: at most one alias exists per slug in every reachable state, and
\* create-link with a slug that, once normalised, already exists answers with
\* an error and leaves the alias table, the existing alias's pointer included,
\* as it was.
C33_OneAliasPerSlug ==
  [][/\ \A a, b \in static_links : a.slug = b.slug => a = b
     /\ \A a, b \in static_links' : a.slug = b.slug => a = b
     /\ \A raw \in RawSlugs, target \in LinkTargets :
          (/\ CreateLink(raw, target)
           /\ SelectLink(static_links, NormalizeSlug(raw)) # {}) =>
            /\ wr'.status = "500"
            /\ static_links' = static_links
    ]_vars

\* create-link was refused while promo, pointing at a.png, was the only alias
C33_Witness ==
  /\ wr.op = "create-link"
  /\ wr.pc = "done"
  /\ wr.status = "500"
  /\ static_links = {LinkRow("promo", "a.png")}

\* C36: when /save-editor has just answered success for a request with
\* updateStaticLink = slug, a GET of the slug that comes next, before any
\* other write, is on its way to the bytes and type just saved: the slug is
\* not passed on as a reserved name, its alias points at the saved name, and
\* the image stored under that name is the saved one.
C36_SavedLinkResolves ==
  [][\A f \in PathNames \cup Reserved :
       (/\ GetLink(f)
        /\ wr.op = "save-editor" /\ wr.pc = "done" /\ wr.status = "success:true"
        /\ wr.slug = f) =>
         /\ get'.pc = "linkimg"
         /\ get'.target = wr.filename
         /\ SelectImage(images, wr.filename) =
              {ImageRow(wr.filename, wr.mimetype, wr.data)}
    ]_vars

\* C37: no alias and no stored image shadows an operation page: a GET of
\* gif, editor, links or transparent is passed on by the /:filename handler
\* (next()) to the page's own route, whatever the alias table and the image
\* store hold.
C37_PagesNotShadowed ==
  (Answered /\ get.filename \in OperationPages) =>
    get.outcome \in {"reserved", "notfound"}

\* C38: /create-gif takes existingImage as its source when it is given, even
\* if a file is uploaded too; a name that is not stored is answered with 404
\* and neither existingImage nor a file with 400, the store unchanged in both
\* cases; a successful request creates or overwrites exactly one name,
\* outputName + ".gif" with type image/gif, and changes no other stored image
\* and no alias.
C38_GifSource ==
  [][/\ \A r \in CreateGifRequests :
          CreateGifSource(r.existingImage, r.hasFile, r.outputName, r.gifBuffer,
                          r.codecOk) =>
            /\ images' = images /\ static_links' = static_links
            /\ (Truthy(r.existingImage) /\ ~Stored(r.existingImage)) =>
                 wr'.pc = "done" /\ wr'.status = "404"
            /\ (Truthy(r.existingImage) /\ Stored(r.existingImage) /\ r.codecOk) =>
                 wr'.pc = "write" /\ wr'.src = r.existingImage
            /\ (~Truthy(r.existingImage) /\ ~r.hasFile) =>
                 wr'.pc = "done" /\ wr'.status = "400"
            /\ (~Truthy(r.existingImage) /\ r.hasFile /\ r.codecOk) =>
                 wr'.pc = "write" /\ wr'.src = NULL
            /\ wr'.pc = "write" =>
                 /\ wr'.filename = r.outputName \o ".gif"
                 /\ wr'.mimetype = "image/gif"
                 /\ wr'.data = r.gifBuffer
     /\ CreateGifSave =>
          /\ wr'.status = "200"
          /\ SelectImage(images', wr.filename) =
               {ImageRow(wr.filename, "image/gif", wr.data)}
          /\ {row \in images' : row.filename # wr.filename} =
               {row \in images : row.filename # wr.filename}
          /\ static_links' = static_links
    ]_vars

\* /create-gif has overwritten a.gif with a GIF made from the stored a.png,
\* which is still stored, and the alias promo is as it was
C38_Witness ==
  /\ wr.op = "create-gif" /\ wr.pc = "done" /\ wr.status = "200"
  /\ wr.replaced
  /\ wr.filename = "a.gif"
  /\ SelectImage(images, "a.gif") = {ImageRow("a.gif", "image/gif", wr.data)}
  /\ Stored("a.png")
  /\ static_links = {LinkRow("promo", "a.png")}

====
